---- MODULE Spec2Model ----
(***************************************************************************)
(* StellarSQL: the connection dispatch (main.rs, connection/request.rs),   *)
(* the LRU session pool (manager/pool.rs), the SQL worker and catalog      *)
(* (sql/worker.rs, component/), the front end (sql/lexer.rs,               *)
(* sql/parser.rs) on a small statement alphabet, and the catalog level of  *)
(* the disk store (storage/file.rs).                                       *)
(*                                                                         *)
(* Texts are sequences of lexemes: a request line is the sequence of its   *)
(* words, delimiters and "||" separators.  A delimiter lexeme is written   *)
(* directly after the lexeme before it; every other lexeme is preceded by  *)
(* whitespace.                                                             *)
(***************************************************************************)
EXTENDS Integers, Sequences, FiniteSets, TLC

\* ---------------------------------------------------------------- bounds
\* request lines that reach the pool in one run, over all connections
MaxRequests == 5
\* rows of a table handed to hierarchic_check
MaxHcRows == 2
\* rows one in-memory table may hold
MaxRows == 1
\* rows insert_row is run up to, on a table taken on its own
MaxInserted == 2
\* records one <T>.bin may hold
MaxRecords == 2
\* rows of the table a SELECT is run on, taken on its own
MaxWhereRows == 2
\* words of a message handed to the lexer on its own
MaxWords == 2
\* records of a <T>.bin an index is built from
MaxIndexRecords == 3
\* write_back calls made for one session
MaxWriteBacks == 2
\* keys of a node find_ptr searches, and the largest key
MaxKeys == 3
MaxKey == 4

\* ------------------------------------------------------- program constants
\* POOL_SIZE of the process configuration, read by main.rs
POOL_SIZE == 1

\* peer addresses (Request.addr, the pool key)
Addrs == {"a1", "a2", "a3"}
\* capacities of the pools run on their own: below the number of addresses,
\* so that every pool fills and evicts
PoolSizes == 1..(Cardinality(Addrs) - 1)
\* the addresses of the connections the server accepts
Conns == {"a1", "a2"}
\* user names clients log in with
Users == {"u1"}
\* table names of the statement alphabet
TableNames == {"t1"}

\* database names of the statement alphabet, and the empty name of SQL::new
DbNames == {"", "db1"}
\* column names of the statement alphabet
FieldNames == {"a"}

\* ------------------------------------------------------------- sequences
SeqRemoveAt(s, i) ==
    [k \in 1..(Len(s) - 1) |-> IF k < i THEN s[k] ELSE s[k + 1]]

Last(s) == s[Len(s)]
Front(s) == SubSeq(s, 1, Len(s) - 1)

\* ------------------------------------------------------------ catalog model
\* Option<String>::None of Field.default
NoDefault == "<none>"
\* absent entries of the HashMaps Table.fields, Row.data, Database.tables
NoField == [name |-> "<absent>"]
NoValue == "<absent>"
NoTable == [name |-> "<absent>"]

\* component/field.rs Field::new (name, datatype, not_null, default)
FieldNew(name, datatype) ==
    [name |-> name, datatype |-> datatype, not_null |-> FALSE, default |-> NoDefault]

\* component/table.rs Row::new
RowNew == [data |-> [f \in FieldNames |-> NoValue], is_dirty |-> TRUE, is_delete |-> FALSE]

\* component/table.rs Table::new
TableNew(name) ==
    [name |-> name, fields |-> [f \in FieldNames |-> NoField], rows |-> <<>>,
     is_dirty |-> TRUE, is_delete |-> FALSE]

\* component/database.rs Database::new
DatabaseNew(name) ==
    [name |-> name, tables |-> [t \in TableNames |-> NoTable],
     is_dirty |-> TRUE, is_delete |-> FALSE]

\* sql/query.rs QueryData::new
QueryDataNew == [fields |-> <<>>, tables |-> <<>>]

\* sql/worker.rs SQL::new
SQLNew(username) ==
    [user |-> username, database |-> DatabaseNew(""), querydata |-> QueryDataNew,
     result_json |-> <<>>]

\* absent entry of Pool.cache
NoSQL == [user |-> "<absent>"]

\* ------------------------------------------------------------------- disk
\* storage/file.rs: usernames.json, the dbs.json of every user, and per
\* database the tables.json entries with their <T>.bin row files.  The base
\* directory and usernames.json exist; a directory exists exactly when its
\* catalog entry does.
NoFile == [fields |-> "<absent>"]

DiskEmpty ==
    [usernames |-> {},
     dbs |-> {},
     tables |-> [k \in Users \X DbNames \X TableNames |-> NoFile]]

DiskOk(d) == [err |-> "", disk |-> d]
DiskErr(e, d) == [err |-> e, disk |-> d]

\* storage/file.rs File::storage_hierarchy_check, "" when every level exists
storage_hierarchy_check(d, username, db_name, table_name) ==
    IF username \notin d.usernames THEN "UsernameNotExists"
    ELSE IF db_name = "<none>" THEN ""
    ELSE IF <<username, db_name>> \notin d.dbs THEN "DbNotExists"
    ELSE IF table_name = "<none>" THEN ""
    ELSE IF d.tables[<<username, db_name, table_name>>] = NoFile THEN "TableNotExists"
    ELSE ""

\* storage/file.rs File::get_usernames
get_usernames(d) == d.usernames

\* storage/file.rs File::create_username
create_username(d, username) ==
    IF username \in d.usernames THEN DiskErr("UsernameExists", d)
    ELSE DiskOk([d EXCEPT !.usernames = @ \cup {username}])

\* storage/file.rs File::create_db
create_db(d, username, db_name) ==
    LET chk == storage_hierarchy_check(d, username, "<none>", "<none>") IN
    IF chk # "" THEN DiskErr(chk, d)
    ELSE IF <<username, db_name>> \in d.dbs THEN DiskErr("DbExists", d)
    ELSE DiskOk([d EXCEPT !.dbs = @ \cup {<<username, db_name>>}])

\* storage/file.rs File::remove_db
remove_db(d, username, db_name) ==
    LET chk == storage_hierarchy_check(d, username, "<none>", "<none>") IN
    IF chk # "" THEN DiskErr(chk, d)
    ELSE IF <<username, db_name>> \notin d.dbs THEN DiskErr("DbNotExists", d)
    ELSE DiskOk([d EXCEPT !.dbs = @ \ {<<username, db_name>>},
                          !.tables = [k \in DOMAIN @ |->
                              IF k[1] = username /\ k[2] = db_name THEN NoFile ELSE @[k]]])

\* storage/file.rs File::create_table
create_table(d, username, db_name, table) ==
    LET chk == storage_hierarchy_check(d, username, db_name, "<none>")
        key == <<username, db_name, table.name>>
    IN
    IF chk # "" THEN DiskErr(chk, d)
    ELSE IF d.tables[key] # NoFile THEN DiskErr("TableExists", d)
    ELSE DiskOk([d EXCEPT !.tables[key] = [fields |-> table.fields, bin |-> <<>>]])

\* storage/file.rs File::load_tables_meta
load_tables_meta(d, username, db_name) ==
    LET chk == storage_hierarchy_check(d, username, db_name, "<none>") IN
    IF chk # "" THEN [err |-> chk, metas |-> {}]
    ELSE [err |-> "",
          metas |-> {t \in TableNames : d.tables[<<username, db_name, t>>] # NoFile}]

\* storage/file.rs File::drop_table
drop_table(d, username, db_name, table_name) ==
    LET chk == storage_hierarchy_check(d, username, db_name, table_name) IN
    IF chk # "" THEN DiskErr(chk, d)
    ELSE DiskOk([d EXCEPT !.tables[<<username, db_name, table_name>>] = NoFile])

\* the texts str::parse::<i32> accepts, over the values of the statement alphabet
IsIntText(text) == text \in {"1", "2"}

\* str::parse::<i32>
ParseInt(text) == IF text = "1" THEN 1 ELSE 2

\* storage/bytescoder.rs BytesCoder::attr_to_bytes for DataType::Int: the
\* encoded value is the parsed integer; attr_encodable is its Ok case
attr_encodable(datatype, text) == IsIntText(text)
attr_to_bytes(datatype, text) == ParseInt(text)

\* the record append_rows writes for one row: __valid__ = 1, then the attributes
RowBytes(fields, row) ==
    [valid |-> 1,
     attrs |-> [f \in {g \in FieldNames : fields[g] # NoField} |->
                   attr_to_bytes(fields[f].datatype, row.data[f])]]

\* storage/file.rs File::append_rows
append_rows(d, username, db_name, table_name, rows) ==
    LET chk == storage_hierarchy_check(d, username, db_name, table_name)
        key == <<username, db_name, table_name>>
        file == d.tables[key]
        bad == \E i \in 1..Len(rows) : \E f \in FieldNames :
                   /\ file.fields[f] # NoField
                   /\ ~attr_encodable(file.fields[f].datatype, rows[i].data[f])
    IN
    IF chk # "" THEN DiskErr(chk, d)
    ELSE IF bad THEN DiskErr("BytesCoder", d)
    ELSE DiskOk([d EXCEPT !.tables[key].bin =
                    @ \o [i \in 1..Len(rows) |-> RowBytes(file.fields, rows[i])]])

\* ------------------------------------------------------------ bytes coder
\* component/datatype.rs DataType; len is the length of Char and Varchar
DataType(kind, len) == [kind |-> kind, len |-> len]
DataTypeInt == DataType("Int", 0)
DataTypeFloat == DataType("Float", 0)
DataTypeDouble == DataType("Double", 0)

\* the attribute values the storage calls are run on
FileTexts == {"1", "2", "01", "x", "abc"}

\* str::as_bytes: the UTF-8 bytes of a text
as_bytes(text) ==
    CASE text = "" -> <<>>
      [] text = "1" -> <<49>>
      [] text = "2" -> <<50>>
      [] text = "01" -> <<48, 49>>
      [] text = "x" -> <<120>>
      [] text = "abc" -> <<97, 98, 99>>

\* String::from_utf8 on the bytes of one of the texts
from_utf8(bytes) == CHOOSE t \in FileTexts \cup {""} : as_bytes(t) = bytes

\* str::parse::<i32>, ::<f32> and ::<f64> accept these texts and no other of
\* FileTexts; a leading zero is accepted and dropped
IsNumberText(text) == text \in {"1", "2", "01"}
ParseNumber(text) == IF text = "2" THEN 2 ELSE 1

Digits == <<"0", "1", "2", "3", "4", "5", "6", "7", "8", "9">>

\* i32::to_string of a value that is not negative
RECURSIVE to_string(_)
to_string(v) ==
    IF v < 10 THEN Digits[v + 1] ELSE to_string(v \div 10) \o Digits[(v % 10) + 1]

\* byteorder write_i32::<BigEndian>: the four bytes of the two's complement
write_i32(v) ==
    <<(v \div 16777216) % 256, (v \div 65536) % 256, (v \div 256) % 256, v % 256>>

\* byteorder read_i32::<BigEndian>
read_i32(bytes) ==
    (IF bytes[1] >= 128 THEN bytes[1] - 256 ELSE bytes[1]) * 16777216
        + bytes[2] * 65536 + bytes[3] * 256 + bytes[4]

\* byteorder write_f32::<BigEndian> and read_f32 of 1.0 and 2.0 (IEEE 754)
write_f32(v) == IF v = 1 THEN <<63, 128, 0, 0>> ELSE <<64, 0, 0, 0>>
read_f32(bytes) == IF bytes = <<63, 128, 0, 0>> THEN 1 ELSE 2

\* byteorder write_f64::<BigEndian> and read_f64 of 1.0 and 2.0 (IEEE 754)
write_f64(v) ==
    IF v = 1 THEN <<63, 240, 0, 0, 0, 0, 0, 0>> ELSE <<64, 0, 0, 0, 0, 0, 0, 0>>
read_f64(bytes) == IF bytes = <<63, 240, 0, 0, 0, 0, 0, 0>> THEN 1 ELSE 2

Zeros(n) == [i \in 1..n |-> 0]

\* storage/bytescoder.rs SliceExt::trim: the padding bytes at both ends go
trim(bytes) ==
    LET kept == {i \in 1..Len(bytes) : bytes[i] # 0}
    IN IF kept = {} THEN <<>>
       ELSE SubSeq(bytes,
                   CHOOSE i \in kept : \A j \in kept : i <= j,
                   CHOOSE i \in kept : \A j \in kept : j <= i)

\* storage/bytescoder.rs BytesCoder::attr_to_bytes, which storage/file.rs
\* calls as BytesCoder::to_bytes
BytesCoder_to_bytes(datatype, str_val) ==
    IF datatype.kind \in {"Char", "Varchar"} THEN
        IF Len(as_bytes(str_val)) > datatype.len
        THEN [err |-> "StringLength", bytes |-> <<>>]
        ELSE [err |-> "",
              bytes |-> as_bytes(str_val)
                            \o Zeros(datatype.len - Len(as_bytes(str_val)))]
    ELSE IF ~IsNumberText(str_val)
    THEN [err |-> IF datatype.kind = "Int" THEN "ParseInt" ELSE "ParseFloat",
          bytes |-> <<>>]
    ELSE [err |-> "",
          bytes |-> CASE datatype.kind = "Int" -> write_i32(ParseNumber(str_val))
                      [] datatype.kind = "Float" -> write_f32(ParseNumber(str_val))
                      [] datatype.kind = "Double" -> write_f64(ParseNumber(str_val))]

\* storage/bytescoder.rs BytesCoder::bytes_to_attr, which storage/file.rs
\* calls as BytesCoder::from_bytes
BytesCoder_from_bytes(datatype, bytes) ==
    CASE datatype.kind \in {"Char", "Varchar"} -> from_utf8(trim(bytes))
      [] datatype.kind = "Int" -> to_string(read_i32(bytes))
      [] datatype.kind = "Float" -> to_string(read_f32(bytes))
      [] datatype.kind = "Double" -> to_string(read_f64(bytes))

\* ------------------------------------------------------------ file store
\* storage/file.rs on the files themselves: every directory and file under
\* the base path, the entries of the three catalogs as the Vecs serde writes,
\* and every <T>.bin as its bytes.
FileUsers == {"u1"}
FileDbs == {"db1"}
FileTableNames == {"t1"}
FileFieldNames == {"a", "b", "c"}
DbKeys == FileUsers \X FileDbs
BinKeys == FileUsers \X FileDbs \X FileTableNames

\* a path that does not exist; Option::None of an argument
NoJson == [no_file |-> TRUE]
NoBin == [no_file |-> TRUE]
None == "<none>"

\* a catalog file with its entries, a row file with its bytes
Json(entries) == [entries |-> entries]
Bin(bytes) == [bytes |-> bytes]

\* the files after base_dir was removed, or before anything was created
FsFresh ==
    [base_dir |-> FALSE,
     usernames_json |-> NoJson,
     username_dir |-> [u \in FileUsers |-> FALSE],
     dbs_json |-> [u \in FileUsers |-> NoJson],
     db_dir |-> [k \in DbKeys |-> FALSE],
     tables_json |-> [k \in DbKeys |-> NoJson],
     table_bin |-> [k \in BinKeys |-> NoBin]]

FileOk(f) == [err |-> "", fs |-> f]
FileErr(e, f) == [err |-> e, fs |-> f]

\* Vec::contains over the names of a catalog
Listed(json, name) == \E i \in 1..Len(json.entries) : json.entries[i].name = name

\* Iterator::position over the names of a catalog: the first entry of the name
Position(json, name) ==
    CHOOSE i \in 1..Len(json.entries) :
        /\ json.entries[i].name = name
        /\ \A j \in 1..(i - 1) : json.entries[j].name # name

\* Vec::remove of the first entry of the name, Vec::push of a new entry
JsonRemove(json, name) == Json(SeqRemoveAt(json.entries, Position(json, name)))
JsonPush(json, entry) == Json(Append(json.entries, entry))

\* fs::remove_dir_all of a database directory
RemoveDbDir(f, k) ==
    [f EXCEPT !.db_dir[k] = FALSE,
              !.tables_json[k] = NoJson,
              !.table_bin = [b \in BinKeys |->
                                IF <<b[1], b[2]>> = k THEN NoBin ELSE @[b]]]

\* fs::remove_dir_all of a user directory
RemoveUsernameDir(f, u) ==
    [f EXCEPT !.username_dir[u] = FALSE,
              !.dbs_json[u] = NoJson,
              !.db_dir = [k \in DbKeys |-> IF k[1] = u THEN FALSE ELSE @[k]],
              !.tables_json = [k \in DbKeys |-> IF k[1] = u THEN NoJson ELSE @[k]],
              !.table_bin = [b \in BinKeys |-> IF b[1] = u THEN NoBin ELSE @[b]]]

\* a check that looks for the database before it looks for the user
File_storage_hierarchy_check_db_first(f, username, db_name, table_name) ==
    IF ~f.base_dir THEN "BaseDirNotExists"
    ELSE IF f.usernames_json = NoJson THEN "UsernamesJsonNotExists"
    ELSE IF username = None THEN ""
    ELSE IF /\ db_name # None
            /\ f.dbs_json[username] # NoJson
            /\ ~Listed(f.dbs_json[username], db_name)
    THEN "DbNotExists"
    ELSE IF ~Listed(f.usernames_json, username) THEN "UsernameNotExists"
    ELSE IF ~f.username_dir[username] THEN "UsernameDirNotExists"
    ELSE IF f.dbs_json[username] = NoJson THEN "DbsJsonNotExists"
    ELSE IF db_name = None THEN ""
    ELSE IF ~f.db_dir[<<username, db_name>>] THEN "DbDirNotExists"
    ELSE IF f.tables_json[<<username, db_name>>] = NoJson THEN "TablesJsonNotExists"
    ELSE IF table_name = None THEN ""
    ELSE IF ~Listed(f.tables_json[<<username, db_name>>], table_name)
    THEN "TableNotExists"
    ELSE IF f.table_bin[<<username, db_name, table_name>>] = NoBin
    THEN "TableBinNotExists"
    ELSE ""

\* storage/file.rs File::storage_hierarchy_check with ENABLE_TSV off: the
\* error of the first level that fails, "" when all levels asked for exist
File_storage_hierarchy_check(f, username, db_name, table_name) ==
    IF ~f.base_dir THEN "BaseDirNotExists"
    ELSE IF f.usernames_json = NoJson THEN "UsernamesJsonNotExists"
    ELSE IF username = None THEN ""
    ELSE IF ~Listed(f.usernames_json, username) THEN "UsernameNotExists"
    ELSE IF ~f.username_dir[username] THEN "UsernameDirNotExists"
    ELSE IF f.dbs_json[username] = NoJson THEN "DbsJsonNotExists"
    ELSE IF db_name = None THEN ""
    ELSE IF ~Listed(f.dbs_json[username], db_name) THEN "DbNotExists"
    ELSE IF ~f.db_dir[<<username, db_name>>] THEN "DbDirNotExists"
    ELSE IF f.tables_json[<<username, db_name>>] = NoJson THEN "TablesJsonNotExists"
    ELSE IF table_name = None THEN ""
    ELSE IF ~Listed(f.tables_json[<<username, db_name>>], table_name)
    THEN "TableNotExists"
    ELSE IF f.table_bin[<<username, db_name, table_name>>] = NoBin
    THEN "TableBinNotExists"
    ELSE ""

\* the names of the entries of a catalog
Names(json) == [i \in 1..Len(json.entries) |-> json.entries[i].name]

\* storage/file.rs File::get_usernames
File_get_usernames(f) ==
    LET chk == File_storage_hierarchy_check(f, None, None, None) IN
    IF chk # "" THEN [err |-> chk, names |-> <<>>]
    ELSE [err |-> "", names |-> Names(f.usernames_json)]

\* storage/file.rs File::get_dbs
File_get_dbs(f, username) ==
    LET chk == File_storage_hierarchy_check(f, username, None, None) IN
    IF chk # "" THEN [err |-> chk, names |-> <<>>]
    ELSE [err |-> "", names |-> Names(f.dbs_json[username])]

\* storage/file.rs File::get_tables
File_get_tables(f, username, db_name) ==
    LET chk == File_storage_hierarchy_check(f, username, db_name, None) IN
    IF chk # "" THEN [err |-> chk, names |-> <<>>]
    ELSE [err |-> "", names |-> Names(f.tables_json[<<username, db_name>>])]

\* storage/file.rs File::create_username
File_create_username(f, username) ==
    LET usernames_json ==
            IF f.base_dir /\ f.usernames_json # NoJson THEN f.usernames_json
            ELSE Json(<<>>)
    IN IF Listed(usernames_json, username) THEN FileErr("UsernameExists", f)
       ELSE FileOk([f EXCEPT
                !.base_dir = TRUE,
                !.usernames_json = JsonPush(usernames_json, [name |-> username]),
                !.username_dir[username] = TRUE,
                !.dbs_json[username] = Json(<<>>)])

\* storage/file.rs File::remove_username
File_remove_username(f, username) ==
    LET chk == File_storage_hierarchy_check(f, None, None, None) IN
    IF chk # "" THEN FileErr(chk, f)
    ELSE IF ~Listed(f.usernames_json, username) THEN FileErr("UsernameNotExists", f)
    ELSE FileOk([RemoveUsernameDir(f, username) EXCEPT
             !.usernames_json = JsonRemove(@, username)])

\* storage/file.rs File::create_db
File_create_db(f, username, db_name) ==
    LET chk == File_storage_hierarchy_check(f, username, None, None) IN
    IF chk # "" THEN FileErr(chk, f)
    ELSE IF Listed(f.dbs_json[username], db_name) THEN FileErr("DbExists", f)
    ELSE FileOk([f EXCEPT
             !.dbs_json[username] = JsonPush(@, [name |-> db_name]),
             !.db_dir[<<username, db_name>>] = TRUE,
             !.tables_json[<<username, db_name>>] = Json(<<>>)])

\* storage/file.rs File::remove_db
File_remove_db(f, username, db_name) ==
    LET chk == File_storage_hierarchy_check(f, username, None, None) IN
    IF chk # "" THEN FileErr(chk, f)
    ELSE IF ~Listed(f.dbs_json[username], db_name) THEN FileErr("DbNotExists", f)
    ELSE FileOk([RemoveDbDir(f, <<username, db_name>>) EXCEPT
             !.dbs_json[username] = JsonRemove(@, db_name)])

\* absent entry of the HashMap Table.fields of a table handed to create_table
NoAttr == [kind |-> "<absent>", len |-> 0]

\* component/table.rs Table as create_table reads it: name, fields (the
\* datatype of every declared field) and primary_key
FileTable(name, fields, primary_key) ==
    [name |-> name, fields |-> fields, primary_key |-> primary_key]

\* storage/file.rs File::get_datatype_size
get_datatype_size(datatype) ==
    CASE datatype.kind \in {"Char", "Varchar"} -> datatype.len
      [] datatype.kind = "Double" -> 8
      [] datatype.kind = "Float" -> 4
      [] datatype.kind = "Int" -> 4

\* Vec::sort of the field names
FieldNamesSorted == <<"a", "b", "c">>

\* an order that sorts every field and leaves the primary key where it falls
attrs_order_all_sorted(table) ==
    <<"__valid__">>
        \o SelectSeq(FieldNamesSorted, LAMBDA k : table.fields[k] # NoAttr)

\* storage/file.rs File::create_table, lines 412-424: __valid__, the primary
\* key, then the other fields sorted
attrs_order_of(table) ==
    <<"__valid__">> \o table.primary_key
        \o SelectSeq(FieldNamesSorted,
                     LAMBDA k : /\ table.fields[k] # NoAttr
                                /\ \A i \in 1..Len(table.primary_key) :
                                       table.primary_key[i] # k)

\* storage/file.rs File::create_table, lines 426-441: the loop over attr_sizes
\* from the i-th attribute on, curr_offset being the end of the one before
RECURSIVE attr_offset_ranges_from(_, _, _, _)
attr_offset_ranges_from(table, attrs_order, i, curr_offset) ==
    IF i > Len(attrs_order) THEN <<>>
    ELSE LET attr_size == get_datatype_size(table.fields[attrs_order[i]])
         IN <<(<<curr_offset, curr_offset + attr_size>>)>>
                \o attr_offset_ranges_from(table, attrs_order, i + 1,
                                           curr_offset + attr_size)

\* storage/file.rs File::create_table, lines 397-441: the TableMeta persisted
new_table_meta(table) ==
    LET attrs_order == attrs_order_of(table)
        attr_offset_ranges ==
            <<(<<0, 1>>)>> \o attr_offset_ranges_from(table, attrs_order, 2, 1)
    IN [name |-> table.name,
        primary_key |-> table.primary_key,
        attrs |-> table.fields,
        attrs_order |-> attrs_order,
        attr_offset_ranges |-> attr_offset_ranges,
        row_length |-> attr_offset_ranges[Len(attr_offset_ranges)][2]]

\* a create_table that does not look the name up in tables.json
File_create_table_unchecked(f, username, db_name, table) ==
    LET chk == File_storage_hierarchy_check(f, username, db_name, None)
        k == <<username, db_name>>
    IN IF chk # "" THEN FileErr(chk, f)
       ELSE FileOk([f EXCEPT
                !.table_bin[<<username, db_name, table.name>>] = Bin(<<>>),
                !.tables_json[k] = JsonPush(@, new_table_meta(table))])

\* storage/file.rs File::create_table
File_create_table(f, username, db_name, table) ==
    LET chk == File_storage_hierarchy_check(f, username, db_name, None)
        k == <<username, db_name>>
    IN IF chk # "" THEN FileErr(chk, f)
       ELSE IF Listed(f.tables_json[k], table.name) THEN FileErr("TableExists", f)
       ELSE FileOk([f EXCEPT
                !.table_bin[<<username, db_name, table.name>>] = Bin(<<>>),
                !.tables_json[k] = JsonPush(@, new_table_meta(table))])

\* storage/file.rs File::drop_table
File_drop_table(f, username, db_name, table_name) ==
    LET chk == File_storage_hierarchy_check(f, username, db_name, table_name)
        k == <<username, db_name>>
    IN IF chk # "" THEN FileErr(chk, f)
       ELSE FileOk([f EXCEPT
                !.table_bin[<<username, db_name, table_name>>] = NoBin,
                !.tables_json[k] = JsonRemove(@, table_name)])

\* the meta of a listed table: tables.iter().position(..) and the index
table_meta_target(f, username, db_name, table_name) ==
    LET tables_json == f.tables_json[<<username, db_name>>]
    IN tables_json.entries[Position(tables_json, table_name)]

\* storage/file.rs File::append_rows, lines 634-645: the bytes of one row from
\* the i-th attribute on; a value that cannot be encoded ends the call
RECURSIVE row_to_bytes_from(_, _, _)
row_to_bytes_from(meta, row, i) ==
    IF i > Len(meta.attrs_order) THEN [err |-> "", bytes |-> <<>>]
    ELSE LET attr == meta.attrs_order[i]
             attr_bytes == BytesCoder_to_bytes(meta.attrs[attr], row[attr])
         IN IF attr_bytes.err # "" THEN [err |-> "BytesError", bytes |-> <<>>]
            ELSE LET rest == row_to_bytes_from(meta, row, i + 1)
                 IN IF rest.err # "" THEN rest
                    ELSE [err |-> "", bytes |-> attr_bytes.bytes \o rest.bytes]

\* the chunk of bytes of rows: every row is __valid__ = 1, then its attributes
RECURSIVE chunk_bytes_of(_, _)
chunk_bytes_of(meta, rows) ==
    IF rows = <<>> THEN [err |-> "", bytes |-> <<>>]
    ELSE LET row_bytes == row_to_bytes_from(meta, Head(rows), 2)
         IN IF row_bytes.err # "" THEN row_bytes
            ELSE LET rest == chunk_bytes_of(meta, Tail(rows))
                 IN IF rest.err # "" THEN rest
                    ELSE [err |-> "", bytes |-> <<1>> \o row_bytes.bytes \o rest.bytes]

\* storage/file.rs File::append_rows
File_append_rows(f, username, db_name, table_name, rows) ==
    LET chk == File_storage_hierarchy_check(f, username, db_name, table_name)
        b == <<username, db_name, table_name>>
    IN IF chk # "" THEN FileErr(chk, f)
       ELSE LET chunk == chunk_bytes_of(
                             table_meta_target(f, username, db_name, table_name), rows)
            IN IF chunk.err # "" THEN FileErr(chunk.err, f)
               ELSE FileOk([f EXCEPT !.table_bin[b] = Bin(@.bytes \o chunk.bytes)])

\* the bytes of a file from offset start (0-based), at most n of them:
\* seek(SeekFrom::Start(start)), take(n), read_to_end
ReadAt(bytes, start, n) ==
    IF start >= Len(bytes) THEN <<>>
    ELSE SubSeq(bytes, start + 1,
                IF start + n <= Len(bytes) THEN start + n ELSE Len(bytes))

\* the bytes of a file with chunk written at offset start, which is inside it
WriteAt(bytes, start, chunk) ==
    [i \in 1..Len(bytes) |->
        IF i > start /\ i <= start + Len(chunk) THEN chunk[i - start] ELSE bytes[i]]

\* storage/file.rs File::fetch_rows, lines 718-738: the Row of one record
row_of_bytes(meta, row_bytes) ==
    [attr \in {meta.attrs_order[i] : i \in 2..Len(meta.attrs_order)} |->
        LET i == CHOOSE j \in 2..Len(meta.attrs_order) : meta.attrs_order[j] = attr
        IN BytesCoder_from_bytes(
               meta.attrs[attr],
               SubSeq(row_bytes, meta.attr_offset_ranges[i][1] + 1,
                      meta.attr_offset_ranges[i][2]))]

\* storage/file.rs File::fetch_rows, lines 714-739: the rows of the chunks
\* from the i-th on; a record with __valid__ = 0 ends the call
RECURSIVE rows_of_chunk(_, _, _)
rows_of_chunk(meta, chunk_bytes, i) ==
    IF i * meta.row_length >= Len(chunk_bytes) THEN [err |-> "", rows |-> <<>>]
    ELSE LET row_bytes == ReadAt(chunk_bytes, i * meta.row_length, meta.row_length)
         IN IF row_bytes[1] = 0
            THEN [err |-> "RangeContainsDeletedRecord", rows |-> <<>>]
            ELSE LET rest == rows_of_chunk(meta, chunk_bytes, i + 1)
                 IN IF rest.err # "" THEN rest
                    ELSE [err |-> "",
                          rows |-> <<row_of_bytes(meta, row_bytes)>> \o rest.rows]

\* storage/file.rs File::fetch_rows of a range with row_range[0] <= row_range[1]
File_fetch_rows(f, username, db_name, table_name, row_range) ==
    LET chk == File_storage_hierarchy_check(f, username, db_name, table_name) IN
    IF chk # "" THEN [err |-> chk, rows |-> <<>>]
    ELSE LET meta == table_meta_target(f, username, db_name, table_name)
             chunk_bytes ==
                 ReadAt(f.table_bin[<<username, db_name, table_name>>].bytes,
                        row_range[1] * meta.row_length,
                        (row_range[2] - row_range[1]) * meta.row_length)
         IN IF Len(chunk_bytes) # (row_range[2] - row_range[1]) * meta.row_length
            THEN [err |-> "RangeExceedLatestRecord", rows |-> <<>>]
            ELSE rows_of_chunk(meta, chunk_bytes, 0)

\* storage/file.rs File::delete_rows, lines 806-817, and File::modify_rows,
\* lines 911-922: the first pass over the __valid__ bytes from row_id on
RECURSIVE check_valid_bytes(_, _, _, _)
check_valid_bytes(bytes, row_length, row_id, row_end) ==
    IF row_id >= row_end THEN ""
    ELSE IF row_id * row_length >= Len(bytes) THEN "RangeExceedLatestRecord"
    ELSE IF bytes[row_id * row_length + 1] = 0 THEN "RangeContainsDeletedRecord"
    ELSE check_valid_bytes(bytes, row_length, row_id + 1, row_end)

\* a second pass that takes the records of the range out of the file
del_valid_bytes_compacting(bytes, row_length, row_range) ==
    IF row_range[1] = row_range[2] THEN bytes
    ELSE SubSeq(bytes, 1, row_range[1] * row_length)
             \o SubSeq(bytes, row_range[2] * row_length + 1, Len(bytes))

\* a second pass that also overwrites the record at row_range[1]
del_valid_bytes_inclusive(bytes, row_length, row_range) ==
    [i \in 1..Len(bytes) |->
        IF \E row_id \in row_range[1]..row_range[2] : i = row_id * row_length + 1
        THEN 0 ELSE bytes[i]]

\* storage/file.rs File::delete_rows, lines 824-829: the second pass
del_valid_bytes(bytes, row_length, row_range) ==
    [i \in 1..Len(bytes) |->
        IF \E row_id \in row_range[1]..(row_range[2] - 1) : i = row_id * row_length + 1
        THEN 0 ELSE bytes[i]]

\* storage/file.rs File::delete_rows
File_delete_rows(f, username, db_name, table_name, row_range) ==
    LET chk == File_storage_hierarchy_check(f, username, db_name, table_name)
        b == <<username, db_name, table_name>>
    IN IF chk # "" THEN FileErr(chk, f)
       ELSE LET meta == table_meta_target(f, username, db_name, table_name)
                valid == check_valid_bytes(f.table_bin[b].bytes, meta.row_length,
                                           row_range[1], row_range[2])
            IN IF valid # "" THEN FileErr(valid, f)
               ELSE FileOk([f EXCEPT !.table_bin[b] =
                                Bin(del_valid_bytes(@.bytes, meta.row_length,
                                                    row_range))])

\* the new rows before the first one that cannot be encoded
RECURSIVE EncodablePrefix(_, _)
EncodablePrefix(meta, rows) ==
    IF rows = <<>> \/ row_to_bytes_from(meta, Head(rows), 2).err # "" THEN <<>>
    ELSE <<Head(rows)>> \o EncodablePrefix(meta, Tail(rows))

\* a modify_rows that writes every row as soon as it is encoded
modify_rows_row_by_row(f, b, meta, row_range, new_rows) ==
    LET valid == check_valid_bytes(f.table_bin[b].bytes, meta.row_length,
                                   row_range[1], row_range[2])
        chunk == chunk_bytes_of(meta, new_rows)
        written == chunk_bytes_of(meta, EncodablePrefix(meta, new_rows))
    IN IF valid # "" THEN FileErr(valid, f)
       ELSE IF chunk.err # ""
       THEN FileErr(chunk.err,
                    [f EXCEPT !.table_bin[b] =
                        Bin(WriteAt(@.bytes, row_range[1] * meta.row_length,
                                    written.bytes))])
       ELSE FileOk([f EXCEPT !.table_bin[b] =
                        Bin(WriteAt(@.bytes, row_range[1] * meta.row_length,
                                    chunk.bytes))])

\* File::modify_rows without the check of the valid bytes of the range
modify_rows_over_deleted(f, b, meta, row_range, new_rows) ==
    LET chunk == chunk_bytes_of(meta, new_rows)
    IN IF row_range[2] > Len(f.table_bin[b].bytes) \div meta.row_length
       THEN FileErr("RangeExceedLatestRecord", f)
       ELSE IF chunk.err # "" THEN FileErr(chunk.err, f)
       ELSE FileOk([f EXCEPT !.table_bin[b] =
                        Bin(WriteAt(@.bytes, row_range[1] * meta.row_length,
                                    chunk.bytes))])

\* storage/file.rs File::modify_rows, from the check of the valid bytes on
modify_rows_checked(f, b, meta, row_range, new_rows) ==
    LET valid == check_valid_bytes(f.table_bin[b].bytes, meta.row_length,
                                   row_range[1], row_range[2])
        chunk == chunk_bytes_of(meta, new_rows)
    IN IF valid # "" THEN FileErr(valid, f)
       ELSE IF chunk.err # "" THEN FileErr(chunk.err, f)
       ELSE FileOk([f EXCEPT !.table_bin[b] =
                        Bin(WriteAt(@.bytes, row_range[1] * meta.row_length,
                                    chunk.bytes))])

\* storage/file.rs File::modify_rows
File_modify_rows(f, username, db_name, table_name, row_range, new_rows) ==
    IF row_range[2] - row_range[1] # Len(new_rows)
    THEN FileErr("RangeAndNumRowsMismatch", f)
    ELSE LET chk == File_storage_hierarchy_check(f, username, db_name, table_name) IN
         IF chk # "" THEN FileErr(chk, f)
         ELSE modify_rows_checked(
                  f, <<username, db_name, table_name>>,
                  table_meta_target(f, username, db_name, table_name),
                  row_range, new_rows)

\* ------------------------------------------------------------------ lexer
\* sql/symbol.rs sym
Sym(name, token, group) == [name |-> name, token |-> token, group |-> group]
NoSymbol == [name |-> "<absent>"]

\* to_lowercase of Scanner::new, on the lexemes of the statement alphabet
to_lowercase(w) ==
    CASE w = "CREATE" -> "create"
      [] w = "DATABASE" -> "database"
      [] OTHER -> w

\* sql/lexer.rs is_delimiter
is_delimiter(w) == w \in {"(", ")", ",", ";"}

\* lexemes holding a character that is no identifier character, whitespace,
\* delimiter or `*` (sql/lexer.rs is_identifier_char and the match on x)
NotAllowedLexemes == {"=", "!=", "<>", "<", "<=", ">", ">="}

\* lexemes made of ASCII letters only (char::is_ascii_alphabetic on each char)
AlphaWords ==
    {"create", "database", "table", "insert", "into", "values", "select", "from",
     "where", "not", "null", "int", "drop", "a", "and", "or", "is", "default"}

\* sql/symbol.rs SYMBOLS, the entries over the statement alphabet; the key is
\* the keyword as its sequence of words
SYMBOLS(key) ==
    CASE key = <<"create">> -> Sym("create", "Create", "Keyword")
      [] key = <<"create", "database">> -> Sym("create database", "CreateDatabase", "Keyword")
      [] key = <<"create", "table">> -> Sym("create table", "CreateTable", "Keyword")
      [] key = <<"database">> -> Sym("database", "Database", "Keyword")
      [] key = <<"default">> -> Sym("default", "Default", "Keyword")
      [] key = <<"drop", "table">> -> Sym("drop table", "DropTable", "Keyword")
      [] key = <<"from">> -> Sym("from", "From", "Keyword")
      [] key = <<"full", "outer", "join">> -> Sym("full outer join", "FullOuterJoin", "Keyword")
      [] key = <<"insert", "into">> -> Sym("insert into", "InsertInto", "Keyword")
      [] key = <<"is", "null">> -> Sym("is null", "IsNull", "Keyword")
      [] key = <<"is", "not", "null">> -> Sym("is not null", "IsNotNull", "Keyword")
      [] key = <<"not", "null">> -> Sym("not null", "NotNull", "Keyword")
      [] key = <<"select">> -> Sym("select", "Select", "Keyword")
      [] key = <<"table">> -> Sym("table", "Table", "Keyword")
      [] key = <<"values">> -> Sym("values", "Values", "Keyword")
      [] key = <<"where">> -> Sym("where", "Where", "Keyword")
      [] key = <<"int">> -> Sym("int", "Int", "DataType")
      [] key = <<"and">> -> Sym("and", "AND", "Operator")
      [] key = <<"not">> -> Sym("not", "NOT", "Operator")
      [] key = <<"or">> -> Sym("or", "OR", "Operator")
      [] OTHER -> NoSymbol

\* sql/symbol.rs Symbol::match_delimiter
match_delimiter(ch) ==
    CASE ch = "(" -> Sym("(", "ParentLeft", "Delimiter")
      [] ch = ")" -> Sym(")", "ParentRight", "Delimiter")
      [] ch = "," -> Sym(",", "Comma", "Delimiter")
      [] ch = ";" -> Sym(";", "Semicolon", "Delimiter")
      [] OTHER -> NoSymbol

\* sql/symbol.rs check_multi_keywords_front: the candidate part counts, <<>> for None
check_multi_keywords_front(w) ==
    CASE w \in {"add", "alter", "drop", "foreign", "full", "group", "inner", "insert",
                "left", "not", "order", "outer", "primary", "right", "select",
                "truncate", "union"} -> <<2>>
      [] w = "create" -> <<2, 3, 4>>
      [] w = "is" -> <<2, 3>>
      [] OTHER -> <<>>

\* the inner loop of scan_tokens for one candidate part count: the words after
\* position i that it joins to the buffered word, provided parts - 1 alphabetic
\* words follow
multi_keyword_at(message, i, parts) ==
    IF /\ i + parts - 1 <= Len(message)
       /\ \A k \in 1..(parts - 1) : message[i + k] \in AlphaWords
    THEN SYMBOLS(SubSeq(message, i, i + parts - 1))
    ELSE NoSymbol

\* the loop `for keyword_total_parts in parts`: the first candidate that matches
RECURSIVE first_multi_keyword(_, _, _)
first_multi_keyword(message, i, parts) ==
    IF parts = <<>> THEN [sym |-> NoSymbol, parts |-> 1]
    ELSE IF multi_keyword_at(message, i, Head(parts)) # NoSymbol
         THEN [sym |-> multi_keyword_at(message, i, Head(parts)), parts |-> Head(parts)]
         ELSE first_multi_keyword(message, i, Tail(parts))

\* sql/lexer.rs Scanner::scan_tokens from lexeme i on; a word is emitted when
\* the whitespace or delimiter after it is met, so a last word with nothing
\* after it is dropped
RECURSIVE scan_from(_, _, _)
scan_from(message, i, tokens) ==
    IF i > Len(message) THEN [err |-> "", tokens |-> tokens]
    ELSE LET w == message[i] IN
         IF w \in NotAllowedLexemes THEN [err |-> "NotAllowedChar", tokens |-> tokens]
         ELSE IF is_delimiter(w) THEN scan_from(message, i + 1, Append(tokens, match_delimiter(w)))
         ELSE IF w = "*" THEN scan_from(message, i + 1, Append(tokens, Sym("*", "Identifier", "Identifier")))
         ELSE IF i = Len(message) THEN [err |-> "", tokens |-> tokens]
         ELSE LET multi == IF is_delimiter(message[i + 1])
                           THEN [sym |-> NoSymbol, parts |-> 1]
                           ELSE first_multi_keyword(message, i, check_multi_keywords_front(w))
              IN IF multi.sym # NoSymbol
                 THEN scan_from(message, i + multi.parts, Append(tokens, multi.sym))
                 ELSE IF SYMBOLS(<<w>>) # NoSymbol
                      THEN scan_from(message, i + 1, Append(tokens, SYMBOLS(<<w>>)))
                      ELSE scan_from(message, i + 1, Append(tokens, Sym(w, "Identifier", "Identifier")))

\* sql/lexer.rs Scanner::new then Scanner::scan_tokens
scan_tokens(message) ==
    scan_from([i \in 1..Len(message) |-> to_lowercase(message[i])], 1, <<>>)

\* ----------------------------------------------------------------- worker
\* component/table.rs Table::insert_row, first loop: the supplied pairs
RECURSIVE insert_row_pairs(_, _, _)
insert_row_pairs(table, row, new_row) ==
    IF row = <<>> THEN [err |-> "", row |-> new_row]
    ELSE LET key == Head(row)[1]
             value == Head(row)[2]
         IN IF key \notin FieldNames \/ table.fields[key] = NoField
            THEN [err |-> "InsertFieldNotExisted", row |-> new_row]
            ELSE IF table.fields[key].not_null /\ value = "null"
            THEN [err |-> "InsertFieldNotNullMismatched", row |-> new_row]
            ELSE insert_row_pairs(table, Tail(row),
                                  [new_row EXCEPT !.data[key] = value])

\* component/table.rs Table::insert_row
insert_row(table, row) ==
    LET r1 == insert_row_pairs(table, row, RowNew)
        declared == {f \in FieldNames : table.fields[f] # NoField}
        missing == {f \in declared : r1.row.data[f] = NoValue}
        filled == [r1.row EXCEPT !.data = [f \in FieldNames |->
                      IF f \in missing THEN table.fields[f].default ELSE @[f]]]
    IN
    IF r1.err # "" THEN [err |-> r1.err, table |-> table]
    ELSE IF \E f \in missing : table.fields[f].default = NoDefault
    THEN [err |-> "InsertFieldDefaultMismatched", table |-> table]
    ELSE [err |-> "", table |-> [table EXCEPT !.rows = Append(@, filled)]]

\* sql/worker.rs SQL::insert_into_table, the loop over the value tuples: a
\* rejected tuple returns the error and keeps the tuples pushed before it
RECURSIVE insert_rows_loop(_, _, _)
insert_rows_loop(table, attrs, rows) ==
    IF rows = <<>> THEN [err |-> "", table |-> table]
    ELSE LET row_in_pair == [i \in 1..Len(attrs) |-> <<attrs[i], Head(rows)[i]>>]
             r == insert_row(table, row_in_pair)
         IN IF r.err # "" THEN [err |-> r.err, table |-> table]
            ELSE insert_rows_loop(r.table, attrs, Tail(rows))

\* sql/worker.rs SQL::create_database
sql_create_database(sql, db_name) ==
    [err |-> "", sql |-> [sql EXCEPT !.database = DatabaseNew(db_name)]]

\* component/database.rs Database::load_db and component/table.rs format_meta
load_db(d, username, db_name) ==
    LET m == load_tables_meta(d, username, db_name) IN
    [err |-> m.err,
     db |-> [name |-> db_name,
             tables |-> [t \in TableNames |->
                 IF t \in m.metas
                 THEN [TableNew(t) EXCEPT
                          !.fields = d.tables[<<username, db_name, t>>].fields,
                          !.is_dirty = FALSE]
                 ELSE NoTable],
             is_dirty |-> FALSE, is_delete |-> FALSE]]

\* sql/worker.rs SQL::load_database
sql_load_database(sql, d, db_name) ==
    LET r == load_db(d, sql.user, db_name) IN
    IF r.err # "" THEN [err |-> r.err, sql |-> sql]
    ELSE [err |-> "", sql |-> [sql EXCEPT !.database = r.db]]

\* sql/worker.rs SQL::create_table with Database::insert_new_table
sql_create_table(sql, table) ==
    [err |-> "", sql |-> [sql EXCEPT !.database.tables[table.name] = table]]

\* sql/worker.rs SQL::insert_into_table
sql_insert_into_table(sql, table_name, attrs, rows) ==
    IF table_name \notin TableNames \/ sql.database.tables[table_name] = NoTable
    THEN [err |-> "table not exists", sql |-> sql]
    ELSE LET r == insert_rows_loop(sql.database.tables[table_name], attrs, rows) IN
         [err |-> r.err, sql |-> [sql EXCEPT !.database.tables[table_name] = r.table]]

\* ----------------------------------------------------------------- parser
\* Iterator::next / peek at position i: NoSymbol past the end
TokAt(tokens, i) == IF i <= Len(tokens) THEN tokens[i] ELSE NoSymbol

\* sql/parser.rs check_id
check_id(sym) == sym # NoSymbol /\ sym.group = "Identifier"

\* sql/parser.rs assert_token
assert_token(sym, token) == sym # NoSymbol /\ sym.token = token

\* component/datatype.rs DataType::get without a length
DataTypeGet(name) ==
    IF name \in {"int", "float", "double"} THEN name ELSE "<none>"

\* sql/parser.rs get_id_list from position i: the names and the position after
RECURSIVE get_id_items(_, _, _)
get_id_items(tokens, i, v) ==
    IF ~assert_token(TokAt(tokens, i), "Identifier") THEN [err |-> "invalid syntax", v |-> v, i |-> i]
    ELSE IF assert_token(TokAt(tokens, i + 1), "Comma")
         THEN get_id_items(tokens, i + 2, Append(v, tokens[i].name))
         ELSE [err |-> "", v |-> Append(v, tokens[i].name), i |-> i + 1]

get_id_list(tokens, i, is_parent) ==
    IF is_parent /\ ~assert_token(TokAt(tokens, i), "ParentLeft")
    THEN [err |-> "invalid syntax", v |-> <<>>, i |-> i]
    ELSE LET r == get_id_items(tokens, IF is_parent THEN i + 1 ELSE i, <<>>) IN
         IF r.err # "" THEN r
         ELSE IF ~is_parent THEN r
         ELSE IF ~assert_token(TokAt(tokens, r.i), "ParentRight")
              THEN [err |-> "invalid syntax", v |-> r.v, i |-> r.i]
              ELSE [r EXCEPT !.i = @ + 1]

\* sql/parser.rs parser_create_table, the loop over the column properties
RECURSIVE column_properties(_, _, _)
column_properties(tokens, i, field) ==
    LET s == TokAt(tokens, i) IN
    IF s = NoSymbol THEN [err |-> "syntax", field |-> field, i |-> i]
    ELSE IF s.token = "Comma" THEN [err |-> "", field |-> field, i |-> i + 1]
    ELSE IF s.token = "NotNull"
         THEN column_properties(tokens, i + 1, [field EXCEPT !.not_null = TRUE])
    ELSE IF s.token = "Default"
         THEN IF TokAt(tokens, i + 1) = NoSymbol
              THEN [err |-> "miss default value", field |-> field, i |-> i]
              ELSE column_properties(tokens, i + 2,
                                     [field EXCEPT !.default = tokens[i + 1].name])
    ELSE IF s.token = "ParentRight" THEN [err |-> "", field |-> field, i |-> i]
    ELSE [err |-> "syntax", field |-> field, i |-> i]

\* sql/parser.rs parser_create_table, the loop over the columns
RECURSIVE column_list(_, _, _)
column_list(tokens, i, table) ==
    LET s == TokAt(tokens, i)
        type_sym == TokAt(tokens, i + 1)
        datatype == DataTypeGet(type_sym.name)
        props == column_properties(tokens, i + 2, FieldNew(s.name, datatype))
    IN
    IF s = NoSymbol THEN [err |-> "syntax", table |-> table]
    ELSE IF s.group = "Identifier" THEN
        IF type_sym = NoSymbol THEN [err |-> "miss column type", table |-> table]
        ELSE IF datatype = "<none>" THEN [err |-> "invalid type", table |-> table]
        ELSE IF props.err # "" THEN [err |-> props.err, table |-> table]
        ELSE column_list(tokens, props.i,
                         [table EXCEPT !.fields[props.field.name] = props.field])
    ELSE IF s.group = "Keyword" THEN [err |-> "syntax", table |-> table]
    ELSE IF s.token = "ParentRight" THEN [err |-> "", table |-> table]
    ELSE [err |-> "syntax", table |-> table]

\* sql/parser.rs parser_create_table
parser_create_table(tokens) ==
    IF TokAt(tokens, 2) = NoSymbol THEN [err |-> "no table name", table |-> NoTable]
    ELSE IF ~check_id(tokens[2]) THEN [err |-> "not an id", table |-> NoTable]
    ELSE IF ~assert_token(TokAt(tokens, 3), "ParentLeft")
         THEN [err |-> "invalid syntax", table |-> NoTable]
    ELSE column_list(tokens, 4, TableNew(tokens[2].name))

\* sql/parser.rs parser_insert_into_table, the loop over the value tuples
RECURSIVE value_tuples(_, _, _, _)
value_tuples(tokens, i, attrs, rows) ==
    LET s == TokAt(tokens, i)
        row == get_id_list(tokens, i, TRUE)
    IN
    IF s # NoSymbol /\ s.token = "ParentLeft" THEN
        IF row.err # "" THEN [err |-> row.err, rows |-> rows, i |-> i]
        ELSE IF Len(attrs) # Len(row.v)
             THEN [err |-> "tuple length mismatch definition", rows |-> rows, i |-> i]
             ELSE value_tuples(tokens, row.i, attrs, Append(rows, row.v))
    ELSE IF s # NoSymbol /\ s.token = "Comma" THEN value_tuples(tokens, i + 1, attrs, rows)
    ELSE [err |-> "", rows |-> rows, i |-> i]

\* sql/parser.rs parser_insert_into_table
parser_insert_into_table(tokens) ==
    LET attrs == get_id_list(tokens, 3, TRUE)
        rows == value_tuples(tokens, attrs.i + 1, attrs.v, <<>>)
        bad(e) == [err |-> e, table_name |-> "", attrs |-> <<>>, rows |-> <<>>]
    IN
    IF TokAt(tokens, 2) = NoSymbol THEN bad("miss table name")
    ELSE IF ~check_id(tokens[2]) THEN bad("not an id")
    ELSE IF attrs.err # "" THEN bad(attrs.err)
    ELSE IF ~assert_token(TokAt(tokens, attrs.i), "Values") THEN bad("invalid syntax")
    ELSE IF rows.err # "" THEN bad(rows.err)
    ELSE IF ~assert_token(TokAt(tokens, rows.i), "Semicolon") THEN bad("invalid syntax")
    ELSE [err |-> "", table_name |-> tokens[2].name, attrs |-> attrs.v, rows |-> rows.rows]

\* sql/parser.rs parse_select without a WHERE clause (every comparison operator
\* of a predicate is rejected by the lexer before the parser runs)
parse_select(tokens) ==
    LET fields == get_id_list(tokens, 2, FALSE)
        tables == get_id_list(tokens, fields.i + 1, FALSE)
    IN
    IF fields.err # "" THEN [err |-> fields.err, querydata |-> QueryDataNew]
    ELSE IF ~assert_token(TokAt(tokens, fields.i), "From")
         THEN [err |-> "invalid syntax", querydata |-> QueryDataNew]
    ELSE IF tables.err # "" THEN [err |-> tables.err, querydata |-> QueryDataNew]
    ELSE [err |-> "", querydata |-> [fields |-> fields.v, tables |-> tables.v]]

\* sql/parser.rs Parser::parse, Token::CreateTable: the table the parser
\* built (t) goes to sql.create_table
parse_create_table(sql, t) ==
    IF t.err # "" THEN [err |-> t.err, sql |-> sql]
    ELSE sql_create_table(sql, t.table)

\* sql/parser.rs Parser::parse, Token::InsertInto: the query data the parser
\* built (r) goes to sql.insert_into_table
parse_insert_into_table(sql, r) ==
    IF r.err # "" THEN [err |-> r.err, sql |-> sql]
    ELSE sql_insert_into_table(sql, r.table_name, r.attrs, r.rows)

\* sql/parser.rs Parser::parse, Token::Select: the query data the parser
\* built (q) is stored in sql.querydata
parse_select_query(sql, q) ==
    IF q.err # "" THEN [err |-> q.err, sql |-> sql]
    ELSE [err |-> "", sql |-> [sql EXCEPT !.querydata = q.querydata]]

\* sql/parser.rs Parser::parse
parse(tokens, sql) ==
    IF tokens[1].token = "CreateDatabase" THEN
        IF TokAt(tokens, 2) = NoSymbol THEN [err |-> "no db name", sql |-> sql]
        ELSE IF ~check_id(tokens[2]) THEN [err |-> "not an id", sql |-> sql]
        ELSE sql_create_database(sql, tokens[2].name)
    ELSE IF tokens[1].token = "CreateTable"
    THEN parse_create_table(sql, parser_create_table(tokens))
    ELSE IF tokens[1].token = "InsertInto"
    THEN parse_insert_into_table(sql, parser_insert_into_table(tokens))
    ELSE IF tokens[1].token = "Select"
    THEN parse_select_query(sql, parse_select(tokens))
    ELSE [err |-> "unknown keyword", sql |-> sql]

\* sql/parser.rs Parser::new: "" with the tokens, or the error
parser_new(message) ==
    LET r == scan_tokens(message) IN
    IF r.err # "" THEN [err |-> "CauseByLexer", tokens |-> <<>>]
    ELSE IF Len(r.tokens) = 0 THEN [err |-> "TokenLengthZero", tokens |-> <<>>]
    ELSE [err |-> "", tokens |-> r.tokens]

\* ------------------------------------------------------------------- pool
\* manager/pool.rs hierarchic_check, step 3: the loop that removes the rows
\* which are not dirty from the clone of table.rows.  i counts from 0 to l - 1
\* over a vector that shrinks; new_row[i] past its end panics.
RECURSIVE dirty_rows_loop(_, _, _)
dirty_rows_loop(new_row, i, l) ==
    IF i >= l THEN [panic |-> FALSE, rows |-> new_row]
    ELSE IF i >= Len(new_row) THEN [panic |-> TRUE, rows |-> new_row]
    ELSE IF ~new_row[i + 1].is_dirty
         THEN dirty_rows_loop(SeqRemoveAt(new_row, i + 1), i + 1, l)
         ELSE dirty_rows_loop(new_row, i + 1, l)

\* result of a pool-level call: res is "ok", "err" (an Err return) or "panic"
HcResult(res, d, log) == [res |-> res, disk |-> d, log |-> log]

\* manager/pool.rs hierarchic_check, the body of the loop over the tables
hierarchic_check_table(user, db_name, table, d, log) ==
    IF table.is_delete THEN
        LET r == drop_table(d, user, db_name, table.name)
            log1 == Append(log, <<"drop_table", table.name>>)
        IN HcResult(IF r.err = "" THEN "ok" ELSE "err", r.disk, log1)
    ELSE
        LET r1 == IF table.is_dirty THEN create_table(d, user, db_name, table)
                                    ELSE DiskOk(d)
            log1 == IF table.is_dirty THEN Append(log, <<"create_table", table.name>>)
                                      ELSE log
            loop == dirty_rows_loop(table.rows, 0, Len(table.rows))
            r2 == append_rows(r1.disk, user, db_name, table.name, loop.rows)
            log2 == Append(log1, <<"append_rows", table.name, loop.rows>>)
        IN
        IF r1.err # "" THEN HcResult("err", r1.disk, log1)
        ELSE IF loop.panic THEN HcResult("panic", r1.disk, log1)
        ELSE IF loop.rows = <<>> THEN HcResult("ok", r1.disk, log1)
        ELSE HcResult(IF r2.err = "" THEN "ok" ELSE "err", r2.disk, log2)

\* the loop of hierarchic_check over sql.database.tables, in iteration order
RECURSIVE hierarchic_check_tables(_, _, _, _, _)
hierarchic_check_tables(user, database, order, d, log) ==
    IF order = <<>> THEN HcResult("ok", d, log)
    ELSE LET r == hierarchic_check_table(user, database.name,
                                         database.tables[Head(order)], d, log)
         IN IF r.res # "ok" THEN r
            ELSE hierarchic_check_tables(user, database, Tail(order), r.disk, r.log)

\* the sequences that enumerate a set once
RECURSIVE Perms(_)
Perms(S) ==
    IF S = {} THEN {<<>>}
    ELSE UNION {{<<x>> \o p : p \in Perms(S \ {x})} : x \in S}

\* the orders in which the HashMap database.tables may be iterated
TableOrders(database) ==
    Perms({t \in TableNames : database.tables[t] # NoTable})

\* manager/pool.rs Pool::hierarchic_check
hierarchic_check(sql, d, order) ==
    IF sql.database.is_delete THEN
        LET r == remove_db(d, sql.user, sql.database.name) IN
        HcResult(IF r.err = "" THEN "ok" ELSE "err", r.disk,
                 <<<<"remove_db", sql.database.name>>>>)
    ELSE
        LET r == IF sql.database.is_dirty
                 THEN create_db(d, sql.user, sql.database.name) ELSE DiskOk(d)
            log == IF sql.database.is_dirty
                   THEN <<<<"create_db", sql.database.name>>>> ELSE <<>>
        IN IF r.err # "" THEN HcResult("err", r.disk, log)
           ELSE hierarchic_check_tables(sql.user, sql.database, order, r.disk, log)

\* manager/pool.rs Pool::pop_from_freelist
pop_from_freelist(freelist, addr) ==
    IF \E i \in 1..Len(freelist) : freelist[i] = addr
    THEN SeqRemoveAt(freelist,
                     CHOOSE i \in 1..Len(freelist) :
                         /\ freelist[i] = addr
                         /\ \A j \in 1..(i - 1) : freelist[j] # addr)
    ELSE freelist

\* BTreeMap::len of Pool.cache
cache_len(cache) == Cardinality({a \in Addrs : cache[a] # NoSQL})

\* result of a Pool method: the pool fields, the disk, and the outcome
PoolResult(res, cache, freelist, d, log) ==
    [res |-> res, cache |-> cache, freelist |-> freelist, disk |-> d, log |-> log]

\* manager/pool.rs Pool::write_back after hierarchic_check returned hc: the
\* entry is removed only when the check was Ok
write_back_checked(cache, fl, addr, hc) ==
    IF hc.res # "ok" THEN PoolResult(hc.res, cache, fl, hc.disk, hc.log)
    ELSE PoolResult("ok", [cache EXCEPT ![addr] = NoSQL], fl, hc.disk, hc.log)

\* manager/pool.rs Pool::write_back after pop_from_freelist left fl
write_back_popped(cache, fl, d, addr, order) ==
    IF cache[addr] = NoSQL THEN PoolResult("err", cache, fl, d, <<>>)
    ELSE write_back_checked(cache, fl, addr, hierarchic_check(cache[addr], d, order))

\* manager/pool.rs Pool::write_back
write_back(cache, freelist, d, addr, order) ==
    write_back_popped(cache, pop_from_freelist(freelist, addr), d, addr, order)

\* manager/pool.rs Pool::insert after the write_back of the popped address
\* returned wb: an error is returned, else the session is inserted
pool_insert_evicted(wb, sql, addr) ==
    IF wb.res # "ok" THEN wb
    ELSE PoolResult("ok", [wb.cache EXCEPT ![addr] = sql],
                    <<addr>> \o wb.freelist, wb.disk, wb.log)

\* Pool::insert without the eviction of a full pool
pool_insert_unbounded(max_entry, cache, freelist, d, sql, addr, iter) ==
    PoolResult("ok", [cache EXCEPT ![addr] = sql], <<addr>> \o freelist, d, <<>>)

\* manager/pool.rs Pool::insert; iter gives, for every cached address, the
\* order in which its tables are iterated
pool_insert(max_entry, cache, freelist, d, sql, addr, iter) ==
    IF cache_len(cache) >= max_entry THEN
        IF freelist = <<>> THEN PoolResult("panic", cache, freelist, d, <<>>)
        ELSE pool_insert_evicted(
                 write_back(cache, Front(freelist), d, Last(freelist),
                            iter[Last(freelist)]),
                 sql, addr)
    ELSE PoolResult("ok", [cache EXCEPT ![addr] = sql], <<addr>> \o freelist, d, <<>>)

\* manager/pool.rs Pool::get, the move of addr to the front of the freelist;
\* freelist[0] on an empty deque panics
pool_get_front(r, addr) ==
    IF r.freelist = <<>> THEN [r EXCEPT !.res = "panic"]
    ELSE IF r.freelist[1] # addr
         THEN [r EXCEPT !.freelist = <<addr>> \o pop_from_freelist(r.freelist, addr)]
         ELSE r

\* manager/pool.rs Pool::get after self.insert returned inserted
pool_get_inserted(inserted, addr) ==
    IF inserted.res # "ok" THEN inserted ELSE pool_get_front(inserted, addr)

\* manager/pool.rs Pool::get for an address that is not cached, after the
\* session was made (and its database loaded: loaded)
pool_get_loaded(max_entry, cache, freelist, d, loaded, addr, iter) ==
    IF loaded.err # "" THEN PoolResult("err", cache, freelist, d, <<>>)
    ELSE pool_get_inserted(
             pool_insert(max_entry, cache, freelist, d, loaded.sql, addr, iter), addr)

\* manager/pool.rs Pool::get
pool_get(max_entry, cache, freelist, d, username, dbname, addr, iter) ==
    IF cache[addr] = NoSQL THEN
        pool_get_loaded(max_entry, cache, freelist, d,
            IF dbname # "" THEN sql_load_database(SQLNew(username), d, dbname)
                           ELSE [err |-> "", sql |-> SQLNew(username)],
            addr, iter)
    ELSE pool_get_front(PoolResult("ok", cache, freelist, d, <<>>), addr)

\* the iteration orders of the tables of every cached session
OrdersOf(sql) == IF sql = NoSQL THEN {<<>>} ELSE TableOrders(sql.database)
IterOrders(cache) ==
    {it \in [Addrs -> UNION {OrdersOf(cache[a]) : a \in Addrs}] :
        \A a \in Addrs : it[a] \in OrdersOf(cache[a])}

\* ------------------------------------------------------------- statements
\* the request lines clients send, as lexemes
CmdCreateDatabase == <<"create", "database", "db1">>
CmdCreateDatabaseUpper == <<"CREATE", "DATABASE", "db1">>
CmdCreateTable == <<"create", "table", "t1", "(", "a", "int", "not", "null", ")">>
CmdInsert == <<"insert", "into", "t1", "(", "a", ")", "values", "(", "1", ")">>
CmdInsertTwo == <<"insert", "into", "t1", "(", "a", ")", "values",
                  "(", "1", ")", ",", "(", "null", ")">>
CmdSelect == <<"select", "a", "from", "t1">>
CmdSelectWhere == <<"select", "a", "from", "t1", "where", "a", "=", "1">>

CmdDropTable == <<"drop", "table", "t1">>

Cmds == {CmdCreateDatabase, CmdCreateDatabaseUpper, CmdCreateTable, CmdInsert,
         CmdInsertTwo, CmdSelect, CmdSelectWhere, CmdDropTable}

\* `username||||||key`, and two malformed first lines
LoginLines == {<<u, "||", "||", "||", "k">> : u \in Users}
                  \cup {<<"u1", "||", "||", "k">>, <<"||", "||", "||", "k">>}

\* `username||dbname||command`, and a line of two fields
RequestLines ==
    {<<u, "||">> \o db \o <<"||">> \o cmd :
        u \in Users, db \in {<<>>, <<"db1">>}, cmd \in Cmds}
        \cup {<<"u1", "||", "db1">>}

Lines == LoginLines \cup RequestLines

\* request lines whose first field is not the name of a user that logs in
OtherUserLines ==
    {<<"u2", "||", "||">> \o CmdCreateDatabase,
     <<"u2", "||", "db1", "||">> \o CmdSelect}

AllLines == Lines \cup OtherUserLines

\* ---------------------------------------------------------------- request
\* str::split("||") over a line from lexeme i on; field is the field being read
RECURSIVE split_from(_, _, _, _)
split_from(line, i, field, acc) ==
    IF i > Len(line) THEN Append(acc, field)
    ELSE IF line[i] = "||" THEN split_from(line, i + 1, <<>>, Append(acc, field))
    ELSE split_from(line, i + 1, Append(field, line[i]), acc)

split(line) == split_from(line, 1, <<>>, <<>>)

\* str::split of every line of the alphabet
SplitOf == [line \in AllLines |-> split(line)]

\* a name field as a string: "" when empty, else its single word
Text(field) == IF field = <<>> THEN "" ELSE field[1]

\* str::split_whitespace: the whitespace-separated words of a command, each
\* as the lexemes it is made of (a delimiter is part of the word before it)
RECURSIVE split_whitespace_from(_, _, _)
split_whitespace_from(cmd, i, acc) ==
    IF i > Len(cmd) THEN acc
    ELSE IF is_delimiter(cmd[i]) /\ acc # <<>>
         THEN split_whitespace_from(cmd, i + 1,
                  [acc EXCEPT ![Len(acc)] = Append(@, cmd[i])])
         ELSE split_whitespace_from(cmd, i + 1, Append(acc, <<cmd[i]>>))

split_whitespace(cmd) == split_whitespace_from(cmd, 1, <<>>)

\* connection/response.rs Response
ResponseOK(msg) == [status |-> "OK", msg |-> msg]
ResponseError(msg) == [status |-> "Error", msg |-> msg]
NoResponse == [status |-> "<none>", msg |-> ""]

\* connection/request.rs Request::user_verify
user_verify(d, name) ==
    IF name = "" THEN DiskErr("UserNotExist", d)
    ELSE IF name \notin get_usernames(d)
         THEN LET r == create_username(d, name) IN
              IF r.err # "" THEN DiskErr("FileError", r.disk) ELSE r
         ELSE DiskOk(d)

\* connection/request.rs Request::parse, the first request of a connection
\* (req.username = ""): the response, the new req.username, the disk
request_login(d, line) ==
    LET split_str == SplitOf[line]
        v == user_verify(d, Text(split_str[1]))
    IN
    IF Len(split_str) # 4 \/ split_str[2] # <<>> \/ split_str[3] # <<>>
    THEN [resp |-> ResponseError("BadRequest"), username |-> "", disk |-> d]
    ELSE IF v.err # ""
    THEN [resp |-> ResponseError(v.err), username |-> "", disk |-> v.disk]
    ELSE [resp |-> ResponseOK("Login OK!"), username |-> Text(split_str[1]), disk |-> v.disk]

\* the fields of a request line after login
ReqUsername(line) == Text(SplitOf[line][1])
ReqDbname(line) == Text(SplitOf[line][2])
ReqCmd(line) == Append(SplitOf[line][3], ";")

IsInsertLine(line) ==
    /\ Len(SplitOf[line]) = 3
    /\ SplitOf[line][3] # <<>>
    /\ SplitOf[line][3][1] = "insert"

\* Parser::new of every command of the alphabet
ParserOf ==
    [cmd \in {ReqCmd(line) : line \in {l \in AllLines : Len(SplitOf[l]) = 3}} |->
        parser_new(cmd)]

\* connection/request.rs Request::parse, the check of a command sent without
\* a database: its first two words are `create` and `database`
is_create_database(cmd) ==
    LET words == split_whitespace(cmd) IN
    /\ Len(words) >= 2
    /\ words[1] = <<"create">>
    /\ words[2] = <<"database">>

\* connection/request.rs Request::parse, the match on parser.parse(&mut sql),
\* which returned r
request_parsed(r) ==
    IF r.err # ""
    THEN [res |-> "err", resp |-> ResponseError("CauseByParser"), sql |-> r.sql]
    ELSE [res |-> "ok", resp |-> ResponseOK("Query OK!"), sql |-> r.sql]

\* connection/request.rs Request::parse after pool.get returned the session:
\* res is "ok", "err" or "panic" (Parser::new(..).unwrap() on a lexer error)
request_execute(sql, dbname, cmd) ==
    IF dbname = "" /\ ~is_create_database(cmd)
    THEN [res |-> "err", resp |-> ResponseError("CreateDBBeforeCmd"), sql |-> sql]
    ELSE IF ParserOf[cmd].err # ""
    THEN [res |-> "panic", resp |-> NoResponse, sql |-> sql]
    ELSE request_parsed(parse(ParserOf[cmd].tokens, sql))

\* connection/request.rs Request::parse, lines 91-112: the statement ran on
\* the session pool.get returned in g, with result r
request_ran(g, r, addr) ==
    [res |-> r.res, resp |-> r.resp, got |-> g.cache[addr],
     cache |-> [g.cache EXCEPT ![addr] = r.sql],
     freelist |-> g.freelist, disk |-> g.disk]

\* connection/request.rs Request::parse, lines 87-112: the match on the
\* result g of pool.get
request_got(g, line, addr) ==
    IF g.res = "err"
    THEN [res |-> "err", resp |-> ResponseError("PoolError"), got |-> NoSQL,
          cache |-> g.cache, freelist |-> g.freelist, disk |-> g.disk]
    ELSE IF g.res = "panic"
    THEN [res |-> "panic", resp |-> NoResponse, got |-> NoSQL,
          cache |-> g.cache, freelist |-> g.freelist, disk |-> g.disk]
    ELSE request_ran(g, request_execute(g.cache[addr], ReqDbname(line), ReqCmd(line)),
                     addr)

\* connection/request.rs Request::parse, lines 87-112, under the guard:
\* pool.get, then the statement on the session it returned (got)
request_pool(max_entry, cache, freelist, d, line, addr, iter) ==
    request_got(pool_get(max_entry, cache, freelist, d, ReqUsername(line),
                         ReqDbname(line), addr, iter),
                line, addr)

\* ------------------------------------------------------------------ state
VARIABLES
    max_entry,   \* Pool.max_entry
    cache,       \* Pool.cache: the session of every address, NoSQL if absent
    freelist,    \* Pool.freelist: addresses, most recently used first
    mutex,       \* the holder of the Mutex<Pool>, or "free"
    poisoned,    \* the poison flag of the Mutex<Pool>
    disk,        \* the files under FILE_BASE_PATH
    username,    \* Request.username of every connection, "" before login
    pc,          \* where the task of every connection stands
    resp,        \* the response computed for the line read, not yet written
    nreq,        \* lines that reached the pool, over all connections
    recent,      \* history: cached addresses, latest successful get first
    ins,         \* history: rows added by successful INSERTs, per session
    unanswered,  \* history: lines read and not yet answered, per connection
    hclog,       \* history: the last call of Pool::write_back
    fs,          \* the files under the base path of the storage calls
    fcall,       \* the last storage call: its arguments and what it returned
    tbl,         \* a Table taken on its own: fields, rows, public_key
    tcall        \* the last call on that table: its argument and its error

poolVars == <<max_entry, cache, freelist, mutex, poisoned, disk, username, pc,
              resp, nreq, recent, ins, unanswered, hclog>>

fileVars == <<fs, fcall>>

tableVars == <<tbl, tcall>>

vars == <<max_entry, cache, freelist, mutex, poisoned, disk, username, pc,
          resp, nreq, recent, ins, unanswered, hclog, fs, fcall, tbl, tcall>>

\* no storage call yet
NoCall == [op |-> "<none>"]

NoHc == [res |-> "<none>"]

\* main.rs main and process: the pool is empty, the connections are accepted
Init ==
    /\ max_entry = POOL_SIZE
    /\ cache = [a \in Addrs |-> NoSQL]
    /\ freelist = <<>>
    /\ mutex = "free"
    /\ poisoned = FALSE
    /\ disk = DiskEmpty
    /\ username = [a \in Addrs |-> ""]
    /\ pc = [a \in Addrs |-> IF a \in Conns THEN "poll" ELSE "none"]
    /\ resp = [a \in Addrs |-> NoResponse]
    /\ nreq = 0
    /\ recent = <<>>
    /\ ins = [a \in Addrs |-> <<>>]
    /\ unanswered = [a \in Addrs |-> 0]
    /\ hclog = NoHc
    /\ fs = FsFresh
    /\ fcall = NoCall
    /\ tbl = NoTable
    /\ tcall = NoCall

\* rows held in memory and on disk
RECURSIVE SumOver(_, _)
SumOver(S, f) ==
    IF S = {} THEN 0
    ELSE LET x == CHOOSE y \in S : TRUE IN f[x] + SumOver(S \ {x}, f)

SessionRows(sql) ==
    IF sql = NoSQL THEN 0
    ELSE SumOver(TableNames, [t \in TableNames |->
             IF sql.database.tables[t] = NoTable THEN 0
             ELSE Len(sql.database.tables[t].rows)])

RowCount ==
    SumOver(Addrs, [a \in Addrs |-> SessionRows(cache[a])])
    + SumOver(DOMAIN disk.tables, [k \in DOMAIN disk.tables |->
          IF disk.tables[k] = NoFile THEN 0 ELSE Len(disk.tables[k].bin)])

\* the rows a statement added to table t of a session
AddedRowsIn(old, new, t) ==
    LET o == old.database.tables[t]
        n == new.database.tables[t]
    IN IF old.database.name # new.database.name THEN <<>>
       ELSE IF o = NoTable \/ n = NoTable THEN <<>>
       ELSE IF Len(n.rows) <= Len(o.rows) THEN <<>>
       ELSE [i \in 1..(Len(n.rows) - Len(o.rows)) |->
                [db |-> new.database.name, table |-> t,
                 data |-> n.rows[Len(o.rows) + i].data]]

RECURSIVE AddedRowsOver(_, _, _)
AddedRowsOver(old, new, S) ==
    IF S = {} THEN <<>>
    ELSE LET t == CHOOSE x \in S : TRUE
         IN AddedRowsIn(old, new, t) \o AddedRowsOver(old, new, S \ {t})

AddedRows(old, new) == AddedRowsOver(old, new, TableNames)

\* recent after a call for address c that left the pool as new_cache
RecentAfter(new_cache, c, got) ==
    LET kept == SelectSeq(recent, LAMBDA a : new_cache[a] # NoSQL /\ ~(got /\ a = c))
    IN IF got THEN <<c>> \o kept ELSE kept

\* ins after a request of address c that returned r
InsAfterRequest(r, c) ==
    [a \in Addrs |->
        IF r.cache[a] = NoSQL THEN <<>>
        ELSE IF a = c /\ r.res = "ok"
             THEN (IF cache[c] = NoSQL THEN <<>> ELSE ins[c])
                      \o AddedRows(r.got, r.cache[c])
        ELSE IF a = c /\ cache[c] = NoSQL THEN <<>>
        ELSE ins[a]]

\* ins after a write_back that left the pool as new_cache
InsAfterWriteBack(new_cache) ==
    [a \in Addrs |-> IF new_cache[a] = NoSQL THEN <<>> ELSE ins[a]]

\* ---------------------------------------------------------------- actions
\* a Request::parse that never takes the login path
is_first_connection_never(req_username) == FALSE

\* connection/request.rs Request::parse, line 59: the first request
is_first_connection(req_username) == req_username = ""

\* a lock that is granted while the guard is held
mutex_is_free_always(m_holder) == TRUE

\* std::sync::Mutex::lock: blocks while another task holds the guard
mutex_is_free(m_holder) == m_holder = "free"

\* connection/message.rs Message::poll yields the first line of a connection
\* and Request::parse takes the login path (lines 59-75)
LoginWith(c, line) ==
    /\ pc[c] = "poll"
    /\ is_first_connection(username[c])
    /\ \E r \in {request_login(disk, line)} :
        /\ resp' = [resp EXCEPT ![c] = r.resp]
        /\ username' = [username EXCEPT ![c] = r.username]
        /\ disk' = r.disk
    /\ pc' = [pc EXCEPT ![c] = "write"]
    /\ unanswered' = [unanswered EXCEPT ![c] = @ + 1]
    /\ UNCHANGED <<max_entry, cache, freelist, mutex, poisoned, nreq, recent,
                   ins, hclog>>
    /\ UNCHANGED <<fileVars, tableVars>>

Login(c) == \E line \in Lines : LoginWith(c, line)

\* Message::poll yields a later line that does not have three fields
\* (Request::parse, lines 77-79)
BadRequestWith(c, line) ==
    /\ pc[c] = "poll"
    /\ ~is_first_connection(username[c])
    /\ Len(SplitOf[line]) # 3
    /\ resp' = [resp EXCEPT ![c] = ResponseError("BadRequest")]
    /\ pc' = [pc EXCEPT ![c] = "write"]
    /\ unanswered' = [unanswered EXCEPT ![c] = @ + 1]
    /\ UNCHANGED <<max_entry, cache, freelist, mutex, poisoned, disk, username,
                   nreq, recent, ins, hclog>>
    /\ UNCHANGED <<fileVars, tableVars>>

BadRequest(c) == \E line \in Lines : BadRequestWith(c, line)

\* Message::poll yields a later line of three fields and Request::parse
\* runs from mutex.lock().unwrap() to its return (lines 81-112), where the
\* guard is dropped.  lock() blocks while the guard is held and panics on a
\* poisoned mutex; a panic under the guard poisons the mutex and ends the task.
RequestWith(c, line) ==
    /\ pc[c] = "poll"
    /\ nreq < MaxRequests
    /\ ~is_first_connection(username[c])
    /\ mutex_is_free(mutex)
    /\ Len(SplitOf[line]) = 3
    /\ IsInsertLine(line) => RowCount < MaxRows
    /\ nreq' = nreq + 1
    /\ unanswered' = [unanswered EXCEPT ![c] = @ + 1]
    /\ IF poisoned THEN
           /\ pc' = [pc EXCEPT ![c] = "lock_failed"]
           /\ UNCHANGED <<cache, freelist, disk, recent, ins, poisoned, resp>>
       ELSE \E iter \in IterOrders(cache) :
           \E r \in {request_pool(max_entry, cache, freelist, disk, line, c, iter)} :
           /\ cache' = r.cache
           /\ freelist' = r.freelist
           /\ disk' = r.disk
           /\ recent' = RecentAfter(r.cache, c, r.got # NoSQL)
           /\ ins' = InsAfterRequest(r, c)
           /\ IF r.res = "panic" THEN
                  /\ pc' = [pc EXCEPT ![c] = "panicked"]
                  /\ poisoned' = TRUE
                  /\ UNCHANGED resp
              ELSE
                  /\ pc' = [pc EXCEPT ![c] = "write"]
                  /\ resp' = [resp EXCEPT ![c] = r.resp]
                  /\ UNCHANGED poisoned
    /\ UNCHANGED <<max_entry, mutex, username, hclog>>
    /\ UNCHANGED <<fileVars, tableVars>>

Request(c) == \E line \in Lines : RequestWith(c, line)

\* main.rs process, the fold over the responses: write_all of one response
Write(c) ==
    /\ pc[c] = "write"
    /\ pc' = [pc EXCEPT ![c] = "poll"]
    /\ resp' = [resp EXCEPT ![c] = NoResponse]
    /\ unanswered' = [unanswered EXCEPT ![c] = @ - 1]
    /\ UNCHANGED <<max_entry, cache, freelist, mutex, poisoned, disk, username,
                   nreq, recent, ins, hclog>>
    /\ UNCHANGED <<fileVars, tableVars>>

\* connection/message.rs Message::poll reads end of file: the stream ends
Eof(c) ==
    /\ pc[c] = "poll"
    /\ pc' = [pc EXCEPT ![c] = "close"]
    /\ UNCHANGED <<max_entry, cache, freelist, mutex, poisoned, disk, username,
                   resp, nreq, recent, ins, unanswered, hclog>>
    /\ UNCHANGED <<fileVars, tableVars>>

\* main.rs process, the `then` closure: mutex.lock().unwrap(), which panics
\* on a poisoned mutex
CloseLock(c) ==
    /\ pc[c] = "close"
    /\ mutex_is_free(mutex)
    /\ IF poisoned
       THEN /\ pc' = [pc EXCEPT ![c] = "close_failed"]
            /\ UNCHANGED mutex
       ELSE /\ pc' = [pc EXCEPT ![c] = "wb"]
            /\ mutex' = c
    /\ UNCHANGED <<max_entry, cache, freelist, poisoned, disk, username, resp,
                   nreq, recent, ins, unanswered, hclog>>
    /\ UNCHANGED <<fileVars, tableVars>>

\* main.rs process, the `then` closure: pool.write_back(addr), its result
\* dropped, and the guard dropped at the end of the closure
WriteBack(c) ==
    /\ pc[c] = "wb"
    /\ \E order \in OrdersOf(cache[c]) :
        \E r \in {write_back(cache, freelist, disk, c, order)} :
        /\ cache' = r.cache
        /\ freelist' = r.freelist
        /\ disk' = r.disk
        /\ recent' = RecentAfter(r.cache, c, FALSE)
        /\ ins' = InsAfterWriteBack(r.cache)
        /\ IF r.res = "panic"
           THEN /\ pc' = [pc EXCEPT ![c] = "panicked"]
                /\ poisoned' = TRUE
           ELSE /\ pc' = [pc EXCEPT ![c] = "done"]
                /\ UNCHANGED poisoned
    /\ mutex' = "free"
    /\ UNCHANGED <<max_entry, username, resp, nreq, unanswered, hclog>>
    /\ UNCHANGED <<fileVars, tableVars>>

Next ==
    \E c \in Conns :
        \/ Login(c)
        \/ BadRequest(c)
        \/ Request(c)
        \/ Write(c)
        \/ Eof(c)
        \/ CloseLock(c)
        \/ WriteBack(c)

Spec == Init /\ [][Next]_vars

\* ------------------------------------- requests in the name of another user
\* connection/request.rs Request::parse after login, over lines whose first
\* field is any name
RequestAs(c) == \E line \in AllLines : RequestWith(c, line)

NextAs ==
    \E c \in Conns :
        \/ Login(c)
        \/ BadRequest(c)
        \/ RequestAs(c)
        \/ Write(c)
        \/ Eof(c)
        \/ CloseLock(c)
        \/ WriteBack(c)

SpecAs == Init /\ [][NextAs]_vars

\* ------------------------------------------------- the pool on its own
\* requests of logged-in connections and their closes as calls on the pool,
\* one at a time under the guard, for pools of every capacity in PoolSizes
InitPool ==
    /\ max_entry \in PoolSizes
    /\ cache = [a \in Addrs |-> NoSQL]
    /\ freelist = <<>>
    /\ mutex = "free"
    /\ poisoned = FALSE
    /\ disk = create_username(DiskEmpty, "u1").disk
    /\ username = [a \in Addrs |-> "u1"]
    /\ pc = [a \in Addrs |-> "none"]
    /\ resp = [a \in Addrs |-> NoResponse]
    /\ nreq = 0
    /\ recent = <<>>
    /\ ins = [a \in Addrs |-> <<>>]
    /\ unanswered = [a \in Addrs |-> 0]
    /\ hclog = NoHc
    /\ fs = FsFresh
    /\ fcall = NoCall
    /\ tbl = NoTable
    /\ tcall = NoCall

\* connection/request.rs Request::parse, lines 86-112, for address a
PoolRequestWith(a, line) ==
    /\ ~poisoned
    /\ nreq < MaxRequests
    /\ Len(SplitOf[line]) = 3
    /\ IsInsertLine(line) => RowCount < MaxRows
    /\ nreq' = nreq + 1
    /\ \E iter \in IterOrders(cache) :
        \E r \in {request_pool(max_entry, cache, freelist, disk, line, a, iter)} :
        /\ cache' = r.cache
        /\ freelist' = r.freelist
        /\ disk' = r.disk
        /\ recent' = RecentAfter(r.cache, a, r.got # NoSQL)
        /\ ins' = InsAfterRequest(r, a)
        /\ poisoned' = (r.res = "panic")
    /\ UNCHANGED <<max_entry, mutex, username, pc, resp, unanswered, hclog>>
    /\ UNCHANGED <<fileVars, tableVars>>

PoolRequest(a) == \E line \in Lines : PoolRequestWith(a, line)

\* main.rs process, the `then` closure, for address a
PoolWriteBack(a) ==
    /\ ~poisoned
    /\ \E order \in OrdersOf(cache[a]) :
        \E r \in {write_back(cache, freelist, disk, a, order)} :
        /\ cache' = r.cache
        /\ freelist' = r.freelist
        /\ disk' = r.disk
        /\ recent' = RecentAfter(r.cache, a, FALSE)
        /\ ins' = InsAfterWriteBack(r.cache)
        /\ poisoned' = (r.res = "panic")
    /\ UNCHANGED <<max_entry, mutex, username, pc, resp, nreq, unanswered, hclog>>
    /\ UNCHANGED <<fileVars, tableVars>>

NextPool ==
    \E a \in Addrs :
        \/ PoolRequest(a)
        \/ PoolWriteBack(a)

SpecPool == InitPool /\ [][NextPool]_vars

\* ------------------------------------------- hierarchic_check on its own
\* the table of CmdCreateTable
HcTable == parser_create_table(scan_tokens(Append(CmdCreateTable, ";")).tokens).table

HcRow(dirty) == [RowNew EXCEPT !.data["a"] = "1", !.is_dirty = dirty]

RECURSIVE HcRowSeqs(_)
HcRowSeqs(n) ==
    IF n = 0 THEN {<<>>}
    ELSE HcRowSeqs(n - 1)
         \cup {Append(rs, HcRow(b)) : rs \in {x \in HcRowSeqs(n - 1) : Len(x) = n - 1},
                                      b \in BOOLEAN}

HcTables ==
    {NoTable} \cup
    {[HcTable EXCEPT !.rows = rs, !.is_dirty = td, !.is_delete = tx] :
        rs \in HcRowSeqs(MaxHcRows), td \in BOOLEAN, tx \in BOOLEAN}

\* sessions over every setting of the flags hierarchic_check reads
HcSessions ==
    {[SQLNew("u1") EXCEPT !.database =
          [name |-> "db1", tables |-> [t \in TableNames |-> tb],
           is_dirty |-> dd, is_delete |-> dx]] :
        tb \in HcTables, dd \in BOOLEAN, dx \in BOOLEAN}

\* disks with the user, with the database, and with the table file
HcDisks ==
    LET d1 == create_username(DiskEmpty, "u1").disk
        d2 == create_db(d1, "u1", "db1").disk
        d3 == create_table(d2, "u1", "db1", HcTable).disk
    IN {d1, d2, d3}

InitHC ==
    /\ max_entry = POOL_SIZE
    /\ cache \in {[a \in Addrs |-> IF a = "a1" THEN sq ELSE NoSQL] : sq \in HcSessions}
    /\ freelist = <<"a1">>
    /\ mutex = "free"
    /\ poisoned = FALSE
    /\ disk \in HcDisks
    /\ username = [a \in Addrs |-> IF a = "a1" THEN "u1" ELSE ""]
    /\ pc = [a \in Addrs |-> "none"]
    /\ resp = [a \in Addrs |-> NoResponse]
    /\ nreq = 0
    /\ recent = <<"a1">>
    /\ ins = [a \in Addrs |-> <<>>]
    /\ unanswered = [a \in Addrs |-> 0]
    /\ hclog = NoHc
    /\ fs = FsFresh
    /\ fcall = NoCall
    /\ tbl = NoTable
    /\ tcall = NoCall

\* manager/pool.rs Pool::write_back of the session, with hierarchic_check
HcWriteBack ==
    /\ hclog = NoHc
    /\ \E order \in OrdersOf(cache["a1"]) :
        \E r \in {write_back(cache, freelist, disk, "a1", order)} :
        /\ cache' = r.cache
        /\ freelist' = r.freelist
        /\ disk' = r.disk
        /\ recent' = RecentAfter(r.cache, "a1", FALSE)
        /\ poisoned' = (r.res = "panic")
        /\ hclog' = [sql |-> cache["a1"], order |-> order, res |-> r.res, log |-> r.log]
    /\ UNCHANGED <<max_entry, mutex, username, pc, resp, nreq, ins, unanswered>>
    /\ UNCHANGED <<fileVars, tableVars>>

NextHC == HcWriteBack

SpecHC == InitHC /\ [][NextHC]_vars

\* ----------------------------------------------------------- properties
\* the steps of the two request actions, seen from outside: connection c read
\* a line, and the line reached the pool
ReadLine(c) == unanswered'[c] = unanswered[c] + 1
ReachedPool == nreq' = nreq + 1

\* C1: the map of a pool of capacity N >= 1 never holds more than N sessions,
\* whatever calls were made and however they ended.
C1_CacheWithinCapacity == cache_len(cache) <= max_entry

\* a full pool that has served more requests than it has entries and has
\* written a session back
C1_Witness ==
    /\ cache_len(cache) = max_entry
    /\ nreq > max_entry
    /\ \E a \in Addrs : cache[a] = NoSQL /\ disk.dbs # {}

\* C2: a get that brings a new address into a full pool removes the session
\* whose latest get is the oldest among the cached ones, writes it back, and
\* removes no other session.
C2_EvictsLeastRecent ==
    [][\A a \in Addrs :
          (cache[a] = NoSQL /\ cache'[a] # NoSQL /\ cache_len(cache) = max_entry)
          => /\ cache'[Last(recent)] = NoSQL
             /\ cache[Last(recent)].database.is_dirty
                    => <<cache[Last(recent)].user,
                         cache[Last(recent)].database.name>> \in disk'.dbs
             /\ \A w \in Addrs \ {Last(recent)} :
                    cache[w] # NoSQL => cache'[w] # NoSQL]_vars

\* a row of ins is in the row file of its table
RowStored(d, user, e) ==
    LET file == d.tables[<<user, e.db, e.table>>] IN
    /\ file # NoFile
    /\ \E j \in 1..Len(file.bin) :
           \A f \in DOMAIN file.bin[j].attrs :
               file.bin[j].attrs[f] = attr_to_bytes(file.fields[f].datatype, e.data[f])

\* C3: when write_back removes a session from the pool (it returned Ok), every
\* row a successful INSERT added during the session is in the row file of its
\* table.
C3_InsertedRowsStored ==
    [][\A a \in Addrs :
          (cache[a] # NoSQL /\ cache'[a] = NoSQL)
          => \A i \in 1..Len(ins[a]) : RowStored(disk', cache[a].user, ins[a][i])]_vars

\* the disk operations a session calls for
HcDirtyRows(table) == SelectSeq(table.rows, LAMBDA r : r.is_dirty)

HcExpectedTable(table) ==
    IF table.is_delete THEN <<<<"drop_table", table.name>>>>
    ELSE (IF table.is_dirty THEN <<<<"create_table", table.name>>>> ELSE <<>>)
         \o (IF HcDirtyRows(table) # <<>>
             THEN <<<<"append_rows", table.name, HcDirtyRows(table)>>>> ELSE <<>>)

RECURSIVE HcExpectedTables(_, _)
HcExpectedTables(database, order) ==
    IF order = <<>> THEN <<>>
    ELSE HcExpectedTable(database.tables[Head(order)])
         \o HcExpectedTables(database, Tail(order))

HcExpected(sql, order) ==
    IF sql.database.is_delete THEN <<<<"remove_db", sql.database.name>>>>
    ELSE (IF sql.database.is_dirty THEN <<<<"create_db", sql.database.name>>>> ELSE <<>>)
         \o HcExpectedTables(sql.database, order)

C5_ErrorLeavesPool ==
    [][\A c \in Conns :
          (ReadLine(c) /\ resp'[c].status = "Error")
          => cache' = cache /\ freelist' = freelist]_vars

\* C6: whatever request failed before, a later request line of any connection
\* takes the pool lock and is answered: the lock() of no request line fails.
C6_LockNeverFails == \A c \in Conns : pc[c] # "lock_failed"

C8_OneResponsePerLine ==
    \A c \in Conns :
        /\ unanswered[c] \in {0, 1}
        /\ unanswered[c] = 1 => (pc[c] = "write" /\ resp[c] # NoResponse)

\* a login line: four fields, the middle two empty, a user name
IsLoginLine(line) ==
    /\ Len(SplitOf[line]) = 4
    /\ SplitOf[line][2] = <<>>
    /\ SplitOf[line][3] = <<>>
    /\ SplitOf[line][1] # <<>>

\* C9: no line reaches the pool or the parser before a login line has
\* succeeded on the connection; any other first line is answered with an
\* error and leaves the connection without a user.
C9_LoginFirst ==
    [][\A c \in Conns :
          /\ (ReadLine(c) /\ username[c] = "")
                 => (~ReachedPool /\ cache' = cache /\ freelist' = freelist)
          /\ \A line \in Lines :
                 (LoginWith(c, line) /\ ~IsLoginLine(line))
                 => (resp'[c].status = "Error" /\ username'[c] = "")
          /\ (username[c] = "" /\ username'[c] # "")
                 => \E line \in Lines :
                        IsLoginLine(line) /\ LoginWith(c, line)
                        /\ resp'[c] = ResponseOK("Login OK!")]_vars

\* a connection that logged in has a session in the pool, and another one
\* stands refused on its first line
C9_Witness ==
    \E c1, c2 \in Conns :
        /\ username[c1] # "" /\ cache[c1] # NoSQL
        /\ username[c2] = "" /\ pc[c2] = "write" /\ resp[c2].status = "Error"

\* the command begins with the keywords create database, in any letter case
BeginsCreateDatabase(cmd) ==
    /\ Len(cmd) >= 2
    /\ to_lowercase(cmd[1]) = "create"
    /\ to_lowercase(cmd[2]) = "database"

\* C10: a request with an empty dbname field runs its statement exactly when
\* the statement begins with create database in any letter case; otherwise
\* it is answered with CreateDBBeforeCmd.
C10_EmptyDbname ==
    [][\A c \in Conns : \A line \in Lines :
          (RequestWith(c, line) /\ ReqDbname(line) = "" /\ pc'[c] = "write"
              /\ resp'[c] # ResponseError("PoolError"))
          => (BeginsCreateDatabase(ReqCmd(line))
                  <=> resp'[c] # ResponseError("CreateDBBeforeCmd"))]_vars

\* ------------------------------------------- the file store on its own
\* tables create_table is called with: every datatype, primary keys of no,
\* one and two fields, in and out of lexicographic order
FileTables ==
    {FileTable("t1", [a |-> DataTypeInt, b |-> NoAttr, c |-> NoAttr], <<"a">>),
     FileTable("t1", [a |-> DataType("Char", 2), b |-> DataTypeInt,
                      c |-> DataTypeDouble], <<"c">>),
     FileTable("t1", [a |-> DataTypeFloat, b |-> DataType("Varchar", 3),
                      c |-> DataTypeInt], <<"c", "a">>),
     FileTable("t1", [a |-> NoAttr, b |-> DataTypeInt, c |-> DataType("Char", 2)],
               <<>>)}

\* rows the calls are made with (Row.0, a HashMap from names to values)
FileRows ==
    {[a |-> "1", b |-> "2", c |-> "1"],
     [a |-> "01", b |-> "x", c |-> "2"],
     [a |-> "2", b |-> "1", c |-> "abc"]}

FileRowSeqs ==
    {<<>>} \cup {<<r>> : r \in FileRows} \cup {<<r, q>> : r \in FileRows, q \in FileRows}

\* row ranges [row_range[0], row_range[1]) up to one record past the bound
FileRanges ==
    {<<x, y>> : x \in 0..(MaxRecords + 1), y \in 0..(MaxRecords + 1)} \cap
    {r \in Nat \X Nat : r[1] <= r[2]}

\* the records of a row file of records of row_length bytes
NumRecords(bytes, row_length) == Len(bytes) \div row_length

\* the records in t1.bin, 0 when there is no such table
Records(f) ==
    IF File_storage_hierarchy_check(f, "u1", "db1", "t1") # "" THEN 0
    ELSE NumRecords(f.table_bin[<<"u1", "db1", "t1">>].bytes,
                    table_meta_target(f, "u1", "db1", "t1").row_length)

\* arguments a call does not take
NoTableIn == [name |-> "<none>"]
NoRange == <<0, 0>>

Call(op, table, row_range, rows, err, out) ==
    [op |-> op, table |-> table, row_range |-> row_range, rows |-> rows,
     err |-> err, out |-> out]

\* a call that changes files: what it returned and the files after it
FileCalled(op, table, row_range, rows, r) ==
    /\ fs' = r.fs
    /\ fcall' = Call(op, table, row_range, rows, r.err, <<>>)
    /\ UNCHANGED <<poolVars, tableVars>>

FileCreateUsername ==
    \E r \in {File_create_username(fs, "u1")} :
        FileCalled("create_username", NoTableIn, NoRange, <<>>, r)

FileRemoveUsername ==
    \E r \in {File_remove_username(fs, "u1")} :
        FileCalled("remove_username", NoTableIn, NoRange, <<>>, r)

FileCreateDb ==
    \E r \in {File_create_db(fs, "u1", "db1")} :
        FileCalled("create_db", NoTableIn, NoRange, <<>>, r)

FileRemoveDb ==
    \E r \in {File_remove_db(fs, "u1", "db1")} :
        FileCalled("remove_db", NoTableIn, NoRange, <<>>, r)

FileCreateTable ==
    \E table \in FileTables :
        \E r \in {File_create_table(fs, "u1", "db1", table)} :
            FileCalled("create_table", table, NoRange, <<>>, r)

FileDropTable ==
    \E r \in {File_drop_table(fs, "u1", "db1", "t1")} :
        FileCalled("drop_table", NoTableIn, NoRange, <<>>, r)

FileAppendRows ==
    \E rows \in FileRowSeqs :
        /\ Records(fs) + Len(rows) <= MaxRecords
        /\ \E r \in {File_append_rows(fs, "u1", "db1", "t1", rows)} :
            FileCalled("append_rows", NoTableIn, NoRange, rows, r)

FileFetchRows ==
    \E row_range \in FileRanges :
        \E r \in {File_fetch_rows(fs, "u1", "db1", "t1", row_range)} :
            /\ fcall' = Call("fetch_rows", NoTableIn, row_range, <<>>, r.err, r.rows)
            /\ UNCHANGED fs
            /\ UNCHANGED <<poolVars, tableVars>>

FileDeleteRows ==
    \E row_range \in FileRanges :
        \E r \in {File_delete_rows(fs, "u1", "db1", "t1", row_range)} :
            FileCalled("delete_rows", NoTableIn, row_range, <<>>, r)

\* the ranges and rows modify_rows is called with: as many rows as the range
\* is wide, no rows for any range, and any rows for the range [0, 0)
FileModifyArgs ==
    {x \in FileRanges \X FileRowSeqs :
        \/ x[1][2] - x[1][1] = Len(x[2])
        \/ x[2] = <<>>
        \/ x[1] = <<0, 0>>}

FileModifyRows ==
    \E x \in FileModifyArgs :
        \E r \in {File_modify_rows(fs, "u1", "db1", "t1", x[1], x[2])} :
            FileCalled("modify_rows", NoTableIn, x[1], x[2], r)

InitFile ==
    /\ max_entry = POOL_SIZE
    /\ cache = [a \in Addrs |-> NoSQL]
    /\ freelist = <<>>
    /\ mutex = "free"
    /\ poisoned = FALSE
    /\ disk = DiskEmpty
    /\ username = [a \in Addrs |-> ""]
    /\ pc = [a \in Addrs |-> "none"]
    /\ resp = [a \in Addrs |-> NoResponse]
    /\ nreq = 0
    /\ recent = <<>>
    /\ ins = [a \in Addrs |-> <<>>]
    /\ unanswered = [a \in Addrs |-> 0]
    /\ hclog = NoHc
    /\ fs = FsFresh
    /\ fcall = NoCall
    /\ tbl = NoTable
    /\ tcall = NoCall

NextFile ==
    \/ FileCreateUsername
    \/ FileRemoveUsername
    \/ FileCreateDb
    \/ FileRemoveDb
    \/ FileCreateTable
    \/ FileDropTable
    \/ FileAppendRows
    \/ FileFetchRows
    \/ FileDeleteRows
    \/ FileModifyRows

SpecFile == InitFile /\ [][NextFile]_vars

\* ----------------------------------------------------- row file claims
\* the table t1 as listed, and the bytes of its row file
MetaOf(f) == table_meta_target(f, "u1", "db1", "t1")
BytesOf(f) == f.table_bin[<<"u1", "db1", "t1">>].bytes

\* the fields of a row that are attributes of the table
RowOver(meta, row) ==
    [attr \in {meta.attrs_order[i] : i \in 2..Len(meta.attrs_order)} |-> row[attr]]

\* a step that is a storage call of this name
Called(op) == fcall'.op = op /\ <<fs, fcall>> # <<fs', fcall'>>

\* C12: after an append_rows that succeeded on a row file of n records,
\* fetch_rows of [n, n + len(rows)) returns the appended rows field by field
\* and in order, and the records below n are as they were.
C12_AppendThenFetch ==
    [][(Called("append_rows") /\ fcall'.err = "")
        => LET n == Records(fs)
               got == File_fetch_rows(fs', "u1", "db1", "t1",
                                      <<n, n + Len(fcall'.rows)>>)
           IN /\ got.err = ""
              /\ got.rows = [i \in 1..Len(fcall'.rows) |->
                                RowOver(MetaOf(fs), fcall'.rows[i])]
              /\ SubSeq(BytesOf(fs'), 1, Len(BytesOf(fs))) = BytesOf(fs)]_vars

Fetch(f, row_range) == File_fetch_rows(f, "u1", "db1", "t1", row_range)

\* the ranges [r[1], r[2]) and [q[1], q[2]) share a row
Intersect(r, q) == \E i \in r[1]..(r[2] - 1) : q[1] <= i /\ i < q[2]

\* C13: after a delete_rows of [a, b) that succeeded, fetch_rows of a range
\* within the file that intersects [a, b) fails with
\* RangeContainsDeletedRecord, and fetch_rows of a range disjoint from [a, b)
\* returns what it returned before the delete.
C13_DeleteThenFetch ==
    [][(Called("delete_rows") /\ fcall'.err = "")
        => \A r \in FileRanges :
              IF Intersect(r, fcall'.row_range)
              THEN r[2] <= Records(fs)
                       => Fetch(fs', r).err = "RangeContainsDeletedRecord"
              ELSE Fetch(fs', r) = Fetch(fs, r)]_vars

\* a delete_rows of one record has succeeded on a row file of two records
C13_Witness ==
    /\ fcall.op = "delete_rows"
    /\ fcall.err = ""
    /\ fcall.row_range[2] = fcall.row_range[1] + 1
    /\ Records(fs) >= 2

\* C14: a delete_rows or modify_rows that returns an error leaves every row
\* file as it was, byte for byte.
C14_FailedCallKeepsFile ==
    [][((Called("delete_rows") \/ Called("modify_rows")) /\ fcall'.err # "")
        => fs'.table_bin = fs.table_bin]_vars

\* a modify_rows of both records of a row file has failed on a value that
\* cannot be encoded
C14_Witness ==
    /\ fcall.op = "modify_rows"
    /\ fcall.err = "BytesError"
    /\ fcall.row_range = <<0, 2>>
    /\ Records(fs) = 2

\* the physical index (from 0) of the record that holds the i-th byte of a
\* row file, and whether that byte is the record's __valid__ byte
RecordOfByte(i, row_length) == (i - 1) \div row_length
IsValidByte(i, row_length) == (i - 1) % row_length = 0

InRange(row_id, row_range) == row_range[1] <= row_id /\ row_id < row_range[2]

\* C15: over append_rows, delete_rows and modify_rows on a table the number
\* of physical records never goes down, a delete_rows changes nothing but
\* __valid__ bytes of records of its range, and an attribute byte of a record
\* changes only in a modify_rows that succeeded and whose range holds it.
C15_PhysicalIndexStable ==
    [][(Called("append_rows") \/ Called("delete_rows") \/ Called("modify_rows"))
        /\ File_storage_hierarchy_check(fs, "u1", "db1", "t1") = ""
        => LET row_length == MetaOf(fs).row_length
               changed == {i \in 1..Len(BytesOf(fs)) :
                              i > Len(BytesOf(fs')) \/ BytesOf(fs')[i] # BytesOf(fs)[i]}
           IN /\ Records(fs') >= Records(fs)
              /\ fcall'.op = "delete_rows"
                    => \A i \in changed :
                          /\ IsValidByte(i, row_length)
                          /\ InRange(RecordOfByte(i, row_length), fcall'.row_range)
              /\ \A i \in changed :
                    ~IsValidByte(i, row_length)
                        => /\ fcall'.op = "modify_rows"
                           /\ fcall'.err = ""
                           /\ InRange(RecordOfByte(i, row_length), fcall'.row_range)]_vars

\* a modify_rows of the second record has succeeded on a row file whose
\* first record is deleted
C15_Witness ==
    /\ fcall.op = "modify_rows"
    /\ fcall.err = ""
    /\ fcall.row_range = <<1, 2>>
    /\ Records(fs) = 2
    /\ BytesOf(fs)[1] = 0

\* ------------------------------------------------------------ catalog claims
\* a catalog file lists no name twice
NoNameTwice(json) ==
    json # NoJson
        => \A i, j \in 1..Len(json.entries) :
               json.entries[i].name = json.entries[j].name => i = j

\* the catalog file exists and lists the name
ListedIn(json, name) == json # NoJson /\ Listed(json, name)

\* C17: after any sequence of creates and removes of users, databases and
\* tables no catalog lists a name twice, and a create of a name its catalog
\* lists fails with UsernameExists, DbExists or TableExists and leaves every
\* file, the row file of the table included, as it was.
C17_CatalogNamesUnique ==
    /\ [](/\ NoNameTwice(fs.usernames_json)
          /\ \A u \in FileUsers : NoNameTwice(fs.dbs_json[u])
          /\ \A k \in DbKeys : NoNameTwice(fs.tables_json[k]))
    /\ [][/\ Called("create_username") /\ ListedIn(fs.usernames_json, "u1")
              => fcall'.err = "UsernameExists" /\ fs' = fs
          /\ Called("create_db") /\ ListedIn(fs.dbs_json["u1"], "db1")
              => fcall'.err = "DbExists" /\ fs' = fs
          /\ Called("create_table") /\ ListedIn(fs.tables_json[<<"u1", "db1">>], "t1")
              => fcall'.err = "TableExists" /\ fs' = fs]_vars

\* create_table of a table whose row file holds records has failed with
\* TableExists, and the records are there
C17_Witness ==
    /\ fcall.op = "create_table"
    /\ fcall.err = "TableExists"
    /\ Records(fs) = MaxRecords

\* the place of a field name in lexicographic order
NameRank(k) == CHOOSE i \in 1..Len(FieldNamesSorted) : FieldNamesSorted[i] = k

\* the bytes one value of the type takes in a record
TypeWidth(datatype) == Len(BytesCoder_to_bytes(datatype, "1").bytes)

RECURSIVE SumWidths(_, _)
SumWidths(meta, i) ==
    IF i > Len(meta.attrs_order) THEN 0
    ELSE TypeWidth(meta.attrs[meta.attrs_order[i]]) + SumWidths(meta, i + 1)

\* the layout the claim describes for one persisted TableMeta
LayoutAsClaimed(meta) ==
    LET order == meta.attrs_order
        pk == meta.primary_key
        ranges == meta.attr_offset_ranges
        rest == SubSeq(order, Len(pk) + 2, Len(order))
    IN /\ order[1] = "__valid__"
       /\ Len(order) >= Len(pk) + 1
       /\ SubSeq(order, 2, Len(pk) + 1) = pk
       /\ {rest[i] : i \in 1..Len(rest)}
              = {k \in FileFieldNames : meta.attrs[k] # NoAttr}
                    \ {pk[i] : i \in 1..Len(pk)}
       /\ \A i \in 1..(Len(rest) - 1) : NameRank(rest[i]) < NameRank(rest[i + 1])
       /\ Len(ranges) = Len(order)
       /\ ranges[1] = <<0, 1>>
       /\ \A i \in 2..Len(ranges) :
              /\ ranges[i][1] = ranges[i - 1][2]
              /\ ranges[i][2] - ranges[i][1] = TypeWidth(meta.attrs[order[i]])
       /\ meta.row_length = ranges[Len(ranges)][2]
       /\ meta.row_length = 1 + SumWidths(meta, 2)

\* C18: every table create_table has persisted has attrs_order = __valid__,
\* the primary key in declared order, then the remaining fields in
\* lexicographic order; its first offset range is [0, 1], every later range
\* starts where the one before ends and is as wide as its attribute's type,
\* and row_length is the end of the last range, 1 plus the sum of the widths.
C18_PersistedLayout ==
    \A k \in DbKeys :
        fs.tables_json[k] # NoJson
            => \A i \in 1..Len(fs.tables_json[k].entries) :
                   LayoutAsClaimed(fs.tables_json[k].entries[i])

\* create_table has persisted a table of three fields whose primary key is
\* (c, a), declared against the lexicographic order
C18_Witness ==
    /\ fcall.op = "create_table"
    /\ fcall.err = ""
    /\ fcall.table.primary_key = <<"c", "a">>
    /\ MetaOf(fs).attrs_order = <<"__valid__", "c", "a", "b">>
    /\ MetaOf(fs).row_length = 12

\* ------------------------------------------- the hierarchy check on its own
\* the files of one user, database and table with any of them removed by
\* hand or left behind by a call that an I/O error cut short: a catalog file
\* is missing, empty, or lists the one name; what is inside a missing
\* directory is missing too
CheckJsons(name) == {NoJson, Json(<<>>), Json(<<[name |-> name]>>)}

CheckTable ==
    FileTable("t1", [a |-> DataTypeInt, b |-> NoAttr, c |-> NoAttr], <<"a">>)

CheckFiles ==
    {[base_dir |-> base,
      usernames_json |-> uj,
      username_dir |-> [u \in FileUsers |-> ud],
      dbs_json |-> [u \in FileUsers |-> dj],
      db_dir |-> [k \in DbKeys |-> dd],
      tables_json |-> [k \in DbKeys |-> tj],
      table_bin |-> [k \in BinKeys |-> IF tb THEN Bin(<<>>) ELSE NoBin]] :
        base \in BOOLEAN, ud \in BOOLEAN, dd \in BOOLEAN, tb \in BOOLEAN,
        uj \in CheckJsons("u1"), dj \in CheckJsons("db1"),
        tj \in {NoJson, Json(<<>>), Json(<<new_table_meta(CheckTable)>>)}}
    \cap
    {f \in [base_dir : BOOLEAN, usernames_json : CheckJsons("u1"),
            username_dir : [FileUsers -> BOOLEAN],
            dbs_json : [FileUsers -> CheckJsons("db1")],
            db_dir : [DbKeys -> BOOLEAN],
            tables_json : [DbKeys -> {NoJson, Json(<<>>),
                                      Json(<<new_table_meta(CheckTable)>>)}],
            table_bin : [BinKeys -> {NoBin, Bin(<<>>)}]] :
        /\ ~f.base_dir => f.usernames_json = NoJson /\ ~f.username_dir["u1"]
        /\ ~f.username_dir["u1"] => f.dbs_json["u1"] = NoJson /\ ~f.db_dir[<<"u1", "db1">>]
        /\ ~f.db_dir[<<"u1", "db1">>]
              => /\ f.tables_json[<<"u1", "db1">>] = NoJson
                 /\ f.table_bin[<<"u1", "db1", "t1">>] = NoBin}

InitCheck ==
    /\ max_entry = POOL_SIZE
    /\ cache = [a \in Addrs |-> NoSQL]
    /\ freelist = <<>>
    /\ mutex = "free"
    /\ poisoned = FALSE
    /\ disk = DiskEmpty
    /\ username = [a \in Addrs |-> ""]
    /\ pc = [a \in Addrs |-> "none"]
    /\ resp = [a \in Addrs |-> NoResponse]
    /\ nreq = 0
    /\ recent = <<>>
    /\ ins = [a \in Addrs |-> <<>>]
    /\ unanswered = [a \in Addrs |-> 0]
    /\ hclog = NoHc
    /\ fs \in CheckFiles
    /\ fcall = NoCall
    /\ tbl = NoTable
    /\ tcall = NoCall

\* a call that reads: what it returned
FileRead(op, row_range, err, out) ==
    /\ fcall' = Call(op, NoTableIn, row_range, <<>>, err, out)
    /\ UNCHANGED fs
    /\ UNCHANGED <<poolVars, tableVars>>

CheckGetUsernames ==
    \E r \in {File_get_usernames(fs)} : FileRead("get_usernames", NoRange, r.err, r.names)

CheckGetDbs ==
    \E r \in {File_get_dbs(fs, "u1")} : FileRead("get_dbs", NoRange, r.err, r.names)

CheckGetTables ==
    \E r \in {File_get_tables(fs, "u1", "db1")} :
        FileRead("get_tables", NoRange, r.err, r.names)

CheckFetchRows ==
    \E r \in {File_fetch_rows(fs, "u1", "db1", "t1", NoRange)} :
        FileRead("fetch_rows", NoRange, r.err, r.rows)

NextCheck ==
    \/ CheckGetUsernames
    \/ CheckGetDbs
    \/ CheckGetTables
    \/ CheckFetchRows

SpecCheck == InitCheck /\ [][NextCheck]_vars

\* the levels of the hierarchy in the order of the check, each with the
\* error of its absence and whether it is there
Levels(f) ==
    <<[err |-> "BaseDirNotExists", there |-> f.base_dir],
      [err |-> "UsernamesJsonNotExists", there |-> f.usernames_json # NoJson],
      [err |-> "UsernameNotExists",
       there |-> f.usernames_json # NoJson /\ Listed(f.usernames_json, "u1")],
      [err |-> "UsernameDirNotExists", there |-> f.username_dir["u1"]],
      [err |-> "DbsJsonNotExists", there |-> f.dbs_json["u1"] # NoJson],
      [err |-> "DbNotExists",
       there |-> f.dbs_json["u1"] # NoJson /\ Listed(f.dbs_json["u1"], "db1")],
      [err |-> "DbDirNotExists", there |-> f.db_dir[<<"u1", "db1">>]],
      [err |-> "TablesJsonNotExists", there |-> f.tables_json[<<"u1", "db1">>] # NoJson],
      [err |-> "TableNotExists",
       there |-> /\ f.tables_json[<<"u1", "db1">>] # NoJson
                 /\ Listed(f.tables_json[<<"u1", "db1">>], "t1")],
      [err |-> "TableBinNotExists", there |-> f.table_bin[<<"u1", "db1", "t1">>] # NoBin]>>

\* the levels a call asks for: base, user, database, table
Depth(op) ==
    CASE op = "get_usernames" -> 2
      [] op = "get_dbs" -> 5
      [] op = "get_tables" -> 8
      [] op = "fetch_rows" -> 10

\* C16: a call fails with the error of the first level, in the order base
\* dir, usernames.json, user entry, user dir, dbs.json, db entry, db dir,
\* tables.json, table entry, <T>.bin, that is missing among the levels it
\* asks for, and succeeds when none is; a call that names a user and a
\* database which are both not listed fails with UsernameNotExists.
C16_FirstMissingLevel ==
    fcall # NoCall
        => LET missing == {i \in 1..Depth(fcall.op) : ~Levels(fs)[i].there}
           IN IF missing = {} THEN fcall.err = ""
              ELSE fcall.err =
                       Levels(fs)[CHOOSE i \in missing : \A j \in missing : i <= j].err

\* get_tables has failed with UsernameNotExists where usernames.json and
\* dbs.json both exist and list neither the user nor the database
C16_Witness ==
    /\ fcall # NoCall
    /\ fcall.op = "get_tables"
    /\ fcall.err = "UsernameNotExists"
    /\ fs.usernames_json = Json(<<>>)
    /\ fs.dbs_json["u1"] = Json(<<>>)

\* ------------------------------------------------- insert_row on its own
\* component/field.rs Field::new_all (name, not_null, default, encrypt)
FieldNewAll(name, not_null, default, encrypt) ==
    [name |-> name, not_null |-> not_null, default |-> default, encrypt |-> encrypt]

\* absent entries of Table.fields and Row.data over the names a, b, c
NoFields == [f \in FileFieldNames |-> NoField]
NoData == [f \in FileFieldNames |-> NoValue]

\* component/table.rs Table::insert_row, lines 168-179: the loop over the
\* supplied pairs; a later pair of the same key replaces the value
RECURSIVE Table_insert_row_supplied(_, _, _)
Table_insert_row_supplied(table, row, data) ==
    IF row = <<>> THEN [err |-> "", field |-> "", data |-> data]
    ELSE LET key == Head(row)[1]
             value == Head(row)[2]
         IN IF key \notin FileFieldNames \/ table.fields[key] = NoField
            THEN [err |-> "InsertFieldNotExisted", field |-> key, data |-> data]
            ELSE IF table.fields[key].not_null /\ value = "null"
            THEN [err |-> "InsertFieldNotNullMismatched", field |-> key, data |-> data]
            ELSE Table_insert_row_supplied(table, Tail(row),
                                           [data EXCEPT ![key] = value])

\* a second loop that leaves the omitted fields out of the row
Table_insert_row_defaults_skipped(table, data) ==
    {[err |-> "", field |-> "", data |-> data]}

\* component/table.rs Table::insert_row, lines 182-193: the loop over the
\* declared fields in the order of the HashMap; it returns at the first
\* omitted field without default it meets, which may be any of them
Table_insert_row_defaults(table, data) ==
    LET missing == {f \in FileFieldNames :
                        table.fields[f] # NoField /\ data[f] = NoValue}
        bare == {f \in missing : table.fields[f].default = NoDefault}
    IN IF bare # {}
       THEN {[err |-> "InsertFieldDefaultMismatched", field |-> f, data |-> data] :
                f \in bare}
       ELSE {[err |-> "", field |-> "",
              data |-> [f \in FileFieldNames |->
                           IF f \in missing THEN table.fields[f].default
                           ELSE data[f]]]}

\* a third loop that never asks for the key
Table_insert_row_encrypt_unkeyed(table) == ""

\* component/table.rs Table::insert_row, lines 195-203: the loop over the
\* fields flagged encrypt; the value itself is left as it is
Table_insert_row_encrypt(table) ==
    IF \E f \in FileFieldNames :
           table.fields[f] # NoField /\ table.fields[f].encrypt /\ table.public_key = 0
    THEN "KeyNotExist"
    ELSE ""

\* component/table.rs Table::insert_row: every outcome of one call
Table_insert_row(table, row) ==
    LET r1 == Table_insert_row_supplied(table, row, NoData) IN
    IF r1.err # "" THEN {[err |-> r1.err, field |-> r1.field, table |-> table]}
    ELSE {IF r2.err # "" THEN [err |-> r2.err, field |-> r2.field, table |-> table]
          ELSE IF Table_insert_row_encrypt(table) # ""
          THEN [err |-> Table_insert_row_encrypt(table), field |-> "", table |-> table]
          ELSE [err |-> "", field |-> "",
                table |-> [table EXCEPT !.rows =
                              Append(@, [data |-> r2.data, is_dirty |-> TRUE,
                                         is_delete |-> FALSE])]] :
            r2 \in Table_insert_row_defaults(table, r1.data)}

\* sql/parser.rs parser_create_table on a column declared `not null default
\* null`: the word after `default` is stored as the default whatever it is
CreateDefaultNull ==
    <<"create", "table", "t1", "(", "a", "int", "not", "null", "default", "null",
      ")", ";">>
ParsedDefaultNull ==
    parser_create_table(scan_tokens(CreateDefaultNull).tokens).table.fields["a"]

\* the tables insert_row is run on: the table of test_insert_row (a not null
\* with default, b not null without default, c without either), a table with
\* an encrypted field, a table of one field whose default is used, and a
\* table whose first column is the one parsed from CreateDefaultNull
InsertFields ==
    {[a |-> FieldNewAll("a", TRUE, "5", FALSE),
      b |-> FieldNewAll("b", TRUE, NoDefault, FALSE),
      c |-> FieldNewAll("c", FALSE, NoDefault, FALSE)],
     [a |-> FieldNewAll("a", FALSE, "5", TRUE),
      b |-> FieldNewAll("b", FALSE, NoDefault, FALSE),
      c |-> NoField],
     [a |-> NoField,
      b |-> NoField,
      c |-> FieldNewAll("c", FALSE, "7", FALSE)],
     [a |-> FieldNewAll("a", ParsedDefaultNull.not_null,
                        ParsedDefaultNull.default, FALSE),
      b |-> FieldNewAll("b", FALSE, NoDefault, FALSE),
      c |-> NoField]}

\* User.key as SQL::insert_into_table copies it into Table.public_key
PublicKeys == {0, 3}

\* the pairs of one call: up to two of them, over the declared names and one
\* other name, the same name twice included
InsertPairs == (FileFieldNames \cup {"z"}) \X {"1", "2", "null"}
InsertRowsIn ==
    {<<>>} \cup {<<p>> : p \in InsertPairs}
           \cup {<<p, q>> : p \in InsertPairs, q \in InsertPairs}

InitInsert ==
    /\ max_entry = POOL_SIZE
    /\ cache = [a \in Addrs |-> NoSQL]
    /\ freelist = <<>>
    /\ mutex = "free"
    /\ poisoned = FALSE
    /\ disk = DiskEmpty
    /\ username = [a \in Addrs |-> ""]
    /\ pc = [a \in Addrs |-> "none"]
    /\ resp = [a \in Addrs |-> NoResponse]
    /\ nreq = 0
    /\ recent = <<>>
    /\ ins = [a \in Addrs |-> <<>>]
    /\ unanswered = [a \in Addrs |-> 0]
    /\ hclog = NoHc
    /\ fs = FsFresh
    /\ fcall = NoCall
    /\ \E fields \in InsertFields, key \in PublicKeys :
           tbl = [name |-> "t1", fields |-> fields, rows |-> <<>>, public_key |-> key]
    /\ tcall = NoCall

InsertRow ==
    \E row \in InsertRowsIn :
        /\ Len(tbl.rows) < MaxInserted
        /\ \E r \in Table_insert_row(tbl, row) :
            /\ tbl' = r.table
            /\ tcall' = [op |-> "insert_row", row |-> row, err |-> r.err,
                         field |-> r.field]
        /\ UNCHANGED <<poolVars, fileVars>>

NextInsert == InsertRow

SpecInsert == InitInsert /\ [][NextInsert]_vars

\* ------------------------------------------------------- insert_row claims
\* the declared field names of a table, the names and values of a call
Declared(table) == {f \in FileFieldNames : table.fields[f] # NoField}
Supplied(row) == {row[i][1] : i \in 1..Len(row)}
Inserted == tcall'.op = "insert_row" /\ <<tbl, tcall>> # <<tbl', tcall'>>

\* C19: when insert_row succeeds the table has exactly one row more; the keys
\* of that row are exactly the declared field names, every supplied field
\* holds a value supplied for it, every omitted field holds its declared
\* default, the row has is_dirty = true and the rows before it are unchanged.
C19_InsertAppendsOneRow ==
    [][Inserted /\ tcall'.err = ""
        => LET new_row == tbl'.rows[Len(tbl'.rows)] IN
           /\ Len(tbl'.rows) = Len(tbl.rows) + 1
           /\ SubSeq(tbl'.rows, 1, Len(tbl.rows)) = tbl.rows
           /\ {f \in FileFieldNames : new_row.data[f] # NoValue} = Declared(tbl)
           /\ \A f \in Supplied(tcall'.row) :
                  \E i \in 1..Len(tcall'.row) : tcall'.row[i] = <<f, new_row.data[f]>>
           /\ \A f \in Declared(tbl) \ Supplied(tcall'.row) :
                  new_row.data[f] = tbl.fields[f].default
           /\ new_row.is_dirty]_vars

\* a second row was inserted with b supplied and a omitted: it holds the
\* value of b and the default of a, after a first row that is still there
C19_Witness ==
    /\ tcall.op = "insert_row"
    /\ tcall.err = ""
    /\ tcall.row = <<(<<"b", "2">>)>>
    /\ Len(tbl.rows) = 2
    /\ tbl.rows[2].data = [a |-> "5", b |-> "2", c |-> NoValue]
    /\ tbl.rows[1].data # tbl.rows[2].data

\* what the four errors are about
FieldNotExisted(table, row) == \E f \in Supplied(row) : f \notin Declared(table)
FieldNotNullMismatched(table, row) ==
    \E i \in 1..Len(row) :
        /\ row[i][1] \in Declared(table)
        /\ table.fields[row[i][1]].not_null
        /\ row[i][2] = "null"
FieldDefaultMismatched(table, row) ==
    \E f \in Declared(table) \ Supplied(row) : table.fields[f].default = NoDefault
KeyMissing(table) ==
    table.public_key = 0 /\ \E f \in Declared(table) : table.fields[f].encrypt

\* C20: insert_row fails when a supplied name is not a declared field, when
\* null is supplied for a not_null field, when a declared field is omitted
\* and has no default, and when a field is flagged encrypt while public_key
\* is 0; the error it fails with is InsertFieldNotExisted,
\* InsertFieldNotNullMismatched, InsertFieldDefaultMismatched or KeyNotExist
\* and is one whose case holds of the call; a call that fails leaves the rows
\* of the table as they were.
C20_InsertErrors ==
    [][Inserted
        => LET row == tcall'.row
               err == tcall'.err
           IN /\ (\/ FieldNotExisted(tbl, row)
                  \/ FieldNotNullMismatched(tbl, row)
                  \/ FieldDefaultMismatched(tbl, row)
                  \/ KeyMissing(tbl)) => err # ""
              /\ err = "InsertFieldNotExisted" => FieldNotExisted(tbl, row)
              /\ err = "InsertFieldNotNullMismatched" => FieldNotNullMismatched(tbl, row)
              /\ err = "InsertFieldDefaultMismatched" => FieldDefaultMismatched(tbl, row)
              /\ err = "KeyNotExist" => KeyMissing(tbl)
              /\ err \in {"", "InsertFieldNotExisted", "InsertFieldNotNullMismatched",
                          "InsertFieldDefaultMismatched", "KeyNotExist"}
              /\ err # "" => tbl'.rows = tbl.rows]_vars

\* insert_row has failed with KeyNotExist on a call that supplied every field
\* it had to and no other
C20_Witness ==
    /\ tcall.op = "insert_row"
    /\ tcall.err = "KeyNotExist"
    /\ tcall.row = <<(<<"b", "1">>)>>
    /\ tbl.public_key = 0

\* C22: in every table state, every row holds, for each field declared
\* not_null, a value other than the literal null, the values filled in from
\* the field's default included.
C22_NotNullHoldsNoNull ==
    \A i \in 1..Len(tbl.rows) : \A f \in Declared(tbl) :
        tbl.fields[f].not_null => tbl.rows[i].data[f] # "null"

\* ---------------------------------------------------- the predicate parser
\* sql/symbol.rs SYMBOLS and match_delimiter on the lexemes of a WHERE body:
\* the operators, the two parentheses, and an identifier for any other word
WhereSymbol(name) ==
    CASE name = ">" -> Sym(">", "GT", "Operator")
      [] name = ">=" -> Sym(">=", "GE", "Operator")
      [] name = "=" -> Sym("=", "EQ", "Operator")
      [] name = "<" -> Sym("<", "LT", "Operator")
      [] name = "and" -> Sym("and", "AND", "Operator")
      [] name = "not" -> Sym("not", "NOT", "Operator")
      [] name = "or" -> Sym("or", "OR", "Operator")
      [] name \in {"(", ")"} -> match_delimiter(name)
      [] OTHER -> Sym(name, "Identifier", "Identifier")

WhereSymbols(names) == [i \in 1..Len(names) |-> WhereSymbol(names[i])]
SymbolNames(symbols) == [i \in 1..Len(symbols) |-> symbols[i].name]

\* sql/parser.rs operator_priority
operator_priority(token) ==
    IF token = "NOT" THEN 2
    ELSE IF token \in {"AND", "OR"} THEN 1
    ELSE 3

\* sql/parser.rs parse_infix_postfix, the arm of `)`: pops to the output until
\* a `(` is popped or the stack is empty
RECURSIVE pop_until_parent_left(_, _)
pop_until_parent_left(stack, output) ==
    IF stack = <<>> THEN [stack |-> stack, output |-> output]
    ELSE IF Last(stack).token = "ParentLeft"
         THEN [stack |-> Front(stack), output |-> output]
         ELSE pop_until_parent_left(Front(stack), Append(output, Last(stack)))

\* sql/parser.rs parse_infix_postfix, the arm of an operator: pops the stacked
\* operators of greater or equal precedence to the output, then pushes s
RECURSIVE push_operator(_, _, _)
push_operator(stack, output, s) ==
    IF /\ stack # <<>>
       /\ Last(stack).group = "Operator"
       /\ operator_priority(Last(stack).token) >= operator_priority(s.token)
    THEN push_operator(Front(stack), Append(output, Last(stack)), s)
    ELSE [stack |-> Append(stack, s), output |-> output]

\* the stack popped to its end, last pushed first
RECURSIVE pop_all(_)
pop_all(stack) ==
    IF stack = <<>> THEN <<>> ELSE <<Last(stack)>> \o pop_all(Front(stack))

\* sql/parser.rs parse_infix_postfix from symbol i on.  parent_counter is
\* declared inside the loop, so it is 0 when the end of the input is met and
\* the SyntaxError of that arm is never returned.
RECURSIVE parse_infix_postfix_from(_, _, _, _)
parse_infix_postfix_from(symbols, i, stack, output) ==
    IF i > Len(symbols) THEN [err |-> "", output |-> output \o pop_all(stack)]
    ELSE LET s == symbols[i] IN
         IF s.token = "ParentLeft"
         THEN parse_infix_postfix_from(symbols, i + 1, Append(stack, s), output)
         ELSE IF s.token = "ParentRight"
         THEN LET r == pop_until_parent_left(stack, output)
              IN parse_infix_postfix_from(symbols, i + 1, r.stack, r.output)
         ELSE IF s.group = "Operator"
         THEN LET r == push_operator(stack, output, s)
              IN parse_infix_postfix_from(symbols, i + 1, r.stack, r.output)
         ELSE parse_infix_postfix_from(symbols, i + 1, stack, Append(output, s))

parse_infix_postfix(symbols) == parse_infix_postfix_from(symbols, 1, <<>>, <<>>)

\* sql/query.rs Node: Option::None of a child, and Node::new.  set is the
\* HashSet table_predicate reads and assigns (sql/worker.rs 252, 263, 278-288),
\* empty in a new node
NoNode == [root |-> "<none>"]
NodeNew(root) == [root |-> root, left |-> NoNode, right |-> NoNode, set |-> {}]

\* sql/parser.rs parse_postfix_tree from symbol i on: err is "" with the tree,
\* "SyntaxError", or "panic" for an unwrap of the pop of an empty stack
RECURSIVE parse_postfix_tree_from(_, _, _)
parse_postfix_tree_from(symbols, i, nodes_stack) ==
    IF i > Len(symbols)
    THEN IF nodes_stack = <<>> THEN [err |-> "panic", tree |-> NoNode]
         ELSE IF Len(nodes_stack) # 1 THEN [err |-> "SyntaxError", tree |-> NoNode]
         ELSE [err |-> "", tree |-> nodes_stack[1]]
    ELSE LET s == symbols[i]
             n == Len(nodes_stack)
         IN
         IF s.group = "Identifier"
         THEN parse_postfix_tree_from(symbols, i + 1,
                                      Append(nodes_stack, NodeNew(s.name)))
         ELSE IF s.group # "Operator" THEN [err |-> "SyntaxError", tree |-> NoNode]
         ELSE IF s.token = "NOT"
         THEN IF n < 1 THEN [err |-> "panic", tree |-> NoNode]
              ELSE parse_postfix_tree_from(symbols, i + 1,
                       Append(Front(nodes_stack),
                              [NodeNew(s.name) EXCEPT !.right = nodes_stack[n]]))
         ELSE IF n < 2 THEN [err |-> "panic", tree |-> NoNode]
              ELSE parse_postfix_tree_from(symbols, i + 1,
                       Append(SubSeq(nodes_stack, 1, n - 2),
                              [NodeNew(s.name) EXCEPT !.right = nodes_stack[n],
                                                      !.left = nodes_stack[n - 1]]))

parse_postfix_tree(symbols) == parse_postfix_tree_from(symbols, 1, <<>>)

\* sql/parser.rs parse_predicate
parse_predicate(symbols) ==
    LET postfix == parse_infix_postfix(symbols) IN
    IF postfix.err # "" THEN [err |-> postfix.err, tree |-> NoNode]
    ELSE parse_postfix_tree(postfix.output)

\* sql/parser.rs in_order
RECURSIVE in_order(_)
in_order(node) ==
    (IF node.left # NoNode THEN in_order(node.left) ELSE <<>>)
        \o <<node.root>>
        \o (IF node.right # NoNode THEN in_order(node.right) ELSE <<>>)

\* ------------------------------------------------------ select on its own
\* component/table.rs cmp, on the integers parse::<i32> returned
cmp(left, operator, right) ==
    CASE operator = "=" -> left = right
      [] operator = ">" -> left > right
      [] operator = ">=" -> left >= right
      [] operator = "<" -> left < right
      [] operator = "<=" -> left <= right
      [] operator \in {"!=", "<>"} -> left # right
      [] OTHER -> FALSE

\* component/table.rs Table::get_all_rows_set: the indices 0 .. len - 1
get_all_rows_set(table) == 0..(Len(table.rows) - 1)

\* an operator_filter_rows that filters the row_set it finds, never widened
\* to all the rows
operator_filter_rows_kept(table, field_name, operator, value) ==
    LET set == {i \in table.row_set :
                   cmp(ParseInt(table.rows[i + 1].data[field_name]), operator,
                       ParseInt(value))}
    IN [err |-> "", set |-> set, table |-> [table EXCEPT !.row_set = set]]

\* component/table.rs Table::operator_filter_rows on Int fields.  err is
\* "panic" for the unwrap of a field the table does not have and, when there
\* is a row to compare, for the unwrap of a text parse::<i32> refuses.
\* While is_predicate_init is false every row index is inserted into row_set
\* first (lines 232-242), so the rows filtered are all the rows.
operator_filter_rows(table, field_name, operator, value) ==
    LET range == IF table.is_predicate_init THEN table.row_set
                 ELSE table.row_set \cup get_all_rows_set(table)
        set == {i \in range :
                   cmp(ParseInt(table.rows[i + 1].data[field_name]), operator,
                       ParseInt(value))}
    IN
    IF field_name \notin DOMAIN table.fields
    THEN [err |-> "panic", set |-> {}, table |-> table]
    ELSE IF range # {} /\ ~IsIntText(value)
    THEN [err |-> "panic", set |-> {}, table |-> table]
    ELSE [err |-> "", set |-> set, table |-> [table EXCEPT !.row_set = set]]

\* component/table.rs Table::set_row_set
set_row_set(table, set) ==
    [table EXCEPT !.row_set = set, !.is_predicate_init = TRUE]

\* component/table.rs Table::load_all_rows_data: it reads no file
load_all_rows_data(table) == [table EXCEPT !.is_data_loaded = TRUE]

\* sql/worker.rs table_predicate: post-order; a node is given a set only when
\* it has both children and neither child has a child of its own
RECURSIVE table_predicate(_, _)
table_predicate(tb, node) ==
    IF node = NoNode THEN [err |-> "", tb |-> tb, node |-> node]
    ELSE LET l == table_predicate(tb, node.left) IN
         IF l.err # "" THEN [err |-> l.err, tb |-> l.tb, node |-> node]
         ELSE LET r == table_predicate(l.tb, node.right) IN
         IF r.err # "" THEN [err |-> r.err, tb |-> r.tb, node |-> node]
         ELSE LET p == [node EXCEPT !.left = l.node, !.right = r.node] IN
         IF p.left = NoNode \/ p.right = NoNode
         THEN [err |-> "", tb |-> r.tb, node |-> p]
         ELSE IF \/ p.left.left # NoNode \/ p.left.right # NoNode
                 \/ p.right.left # NoNode \/ p.right.right # NoNode
         THEN [err |-> "", tb |-> r.tb, node |-> p]
         ELSE IF p.root = "and"
         THEN [err |-> "", tb |-> r.tb,
               node |-> [p EXCEPT !.set = p.left.set \cap p.right.set]]
         ELSE IF p.root = "or"
         THEN [err |-> "", tb |-> r.tb,
               node |-> [p EXCEPT !.set = p.left.set \cup p.right.set]]
         ELSE LET f == operator_filter_rows(r.tb, p.left.root, p.root, p.right.root)
              IN IF f.err # "" THEN [err |-> f.err, tb |-> r.tb, node |-> p]
                 ELSE [err |-> "", tb |-> f.table,
                       node |-> [p EXCEPT !.set = f.set, !.left = NoNode,
                                          !.right = NoNode]]

\* Vec<String> ordering on the texts of the rows: the order of the digits
TextLess(x, y) == ParseInt(x) < ParseInt(y)

\* Vec<Vec<String>> ordering: lexicographic, a proper prefix first
RECURSIVE RowLess(_, _)
RowLess(u, v) ==
    IF v = <<>> THEN FALSE
    ELSE IF u = <<>> THEN TRUE
    ELSE IF Head(u) = Head(v) THEN RowLess(Tail(u), Tail(v))
    ELSE TextLess(Head(u), Head(v))

\* slice::sort on the rows picked, given as a function from row index to row
RECURSIVE sort_rows(_)
sort_rows(picked) ==
    IF DOMAIN picked = {} THEN <<>>
    ELSE LET least == CHOOSE i \in DOMAIN picked :
                          \A j \in DOMAIN picked : ~RowLess(picked[j], picked[i])
         IN <<picked[least]>>
                \o sort_rows([j \in DOMAIN picked \ {least} |-> picked[j]])

\* component/table.rs Table::select: the fields in the requested order, the
\* rows of row_set (all the rows when no predicate set it), sorted; a name
\* the rows do not hold is an error once there is a row to pick
Table_select(table, field_names) ==
    LET row_set == IF table.is_predicate_init THEN table.row_set
                   ELSE table.row_set \cup get_all_rows_set(table)
        missing == \E k \in 1..Len(field_names) :
                       field_names[k] \notin DOMAIN table.fields
    IN
    IF row_set # {} /\ missing
    THEN [err |-> "SelectFieldNotExisted", fields |-> <<>>, rows |-> <<>>]
    ELSE [err |-> "", fields |-> field_names,
          rows |-> sort_rows([i \in row_set |->
                      [k \in 1..Len(field_names) |->
                          table.rows[i + 1].data[field_names[k]]]])]

\* sql/worker.rs SQL::select for one table and no join, on the clone vt1 of
\* the table and the predicate of the query data (NoNode when there is no
\* WHERE): the evaluated predicate and the SelectData behind result_json
SQL_select(table, predicate, field_names) ==
    LET vt3 == load_all_rows_data(table)
        p == table_predicate(vt3, predicate)
        vt4 == IF predicate = NoNode THEN vt3 ELSE set_row_set(p.tb, p.node.set)
        data == Table_select(vt4, field_names)
    IN
    IF predicate # NoNode /\ p.err # ""
    THEN [err |-> p.err, node |-> NoNode, table |-> vt3, fields |-> <<>>,
          rows |-> <<>>]
    ELSE [err |-> data.err, node |-> p.node, table |-> vt4,
          fields |-> data.fields, rows |-> data.rows]

\* the comparisons of the WHERE bodies, on the Int columns a and b
Comparisons == {<<"a", "=", "1">>, <<"a", ">", "1">>, <<"b", "<", "2">>}
Connectives == {<<"and">>, <<"or">>}

\* a comparison, alone or under NOT, NOT NOT or parentheses
Terms ==
    Comparisons
        \cup {<<"not">> \o c : c \in Comparisons}
        \cup {<<"(">> \o c \o <<")">> : c \in Comparisons}
        \cup {<<"not", "not">> \o c : c \in Comparisons}
        \cup {<<"not", "(">> \o c \o <<")">> : c \in Comparisons}

\* two terms joined by AND or OR, bare, in parentheses or under NOT
Pairs ==
    UNION {{t \o op \o u,
            <<"(">> \o t \o op \o u \o <<")">>,
            <<"not", "(">> \o t \o op \o u \o <<")">>} :
           t \in Terms, op \in Connectives, u \in Comparisons}

\* three comparisons joined by AND and OR, grouped to the left, to the right
\* or not at all
Triples ==
    UNION {{c \o op \o d \o oq \o e,
            <<"(">> \o c \o op \o d \o <<")">> \o oq \o e,
            c \o op \o <<"(">> \o d \o oq \o e \o <<")">>,
            <<"not", "(">> \o c \o op \o d \o <<")">> \o oq \o <<"not">> \o e} :
           c \in Comparisons, op \in Connectives, d \in {<<"b", "<", "2">>},
           oq \in Connectives, e \in {<<"a", "=", "1">>, <<"a", ">", "1">>}}

\* the example of test_parse_infix_postfix
BodyOfTest == <<"not", "a1", "=", "3", "and", "b2", ">=", "5">>

WellFormedBodies == Terms \cup Pairs \cup Triples \cup {BodyOfTest}

\* bodies that are no predicate: a well-formed body with one lexeme left
\* out, with one parenthesis added at either end or after the first
\* comparison, with its lexemes in postfix or prefix order, and the empty body
BrokenBodies ==
    UNION {{SeqRemoveAt(w, i) : i \in 1..Len(w)} : w \in Terms}
        \cup UNION {{<<"(">> \o w, w \o <<")">>, <<")">> \o w, w \o <<"(">>} :
                    w \in Terms}
        \cup {c \o <<")">> \o op \o d :
                 c \in Comparisons, op \in Connectives, d \in Comparisons}
        \cup {<<c[1], c[3], c[2]>> : c \in Comparisons}
        \cup {<<c[2], c[1], c[3]>> : c \in Comparisons}
        \cup {c \o op : c \in Comparisons, op \in Connectives}
        \cup {c \o d : c \in Comparisons, d \in Comparisons}
        \cup {<<"a", "not">>, <<"a">>, <<>>}

WhereBodies == WellFormedBodies \cup BrokenBodies

\* the tables a SELECT runs on: the Int columns a and b and up to
\* MaxWhereRows rows
WhereFieldNames == {"a", "b"}
WhereRows == {[data |-> d, is_dirty |-> TRUE, is_delete |-> FALSE] :
                 d \in [WhereFieldNames -> {"1", "2"}]}
WhereTables ==
    {[name |-> "t1", fields |-> [f \in WhereFieldNames |-> FieldNew(f, "int")],
      rows |-> rows, is_data_loaded |-> FALSE, is_predicate_init |-> FALSE,
      row_set |-> {}] :
        rows \in UNION {[1..n -> WhereRows] : n \in 0..MaxWhereRows}}

\* the field lists of the SELECT
WhereFieldLists == {<<"a">>, <<"b", "a">>}

InitWhere ==
    /\ max_entry = POOL_SIZE
    /\ cache = [a \in Addrs |-> NoSQL]
    /\ freelist = <<>>
    /\ mutex = "free"
    /\ poisoned = FALSE
    /\ disk = DiskEmpty
    /\ username = [a \in Addrs |-> ""]
    /\ pc = [a \in Addrs |-> "none"]
    /\ resp = [a \in Addrs |-> NoResponse]
    /\ nreq = 0
    /\ recent = <<>>
    /\ ins = [a \in Addrs |-> <<>>]
    /\ unanswered = [a \in Addrs |-> 0]
    /\ hclog = NoHc
    /\ fs = FsFresh
    /\ fcall = NoCall
    /\ tbl \in WhereTables
    /\ \E names \in WhereBodies, list \in WhereFieldLists, where \in BOOLEAN :
           /\ ~where => names = <<>>
           /\ tcall = [op |-> "query", fields |-> list, where |-> where,
                       symbols |-> WhereSymbols(names)]

\* sql/parser.rs parse_select, lines 290-306: the symbols after WHERE go
\* through parse_predicate and the tree becomes the predicate of the query
ParseWhere ==
    /\ tcall.op = "query"
    /\ \E r \in {IF tcall.where THEN parse_predicate(tcall.symbols)
                 ELSE [err |-> "", tree |-> NoNode]} :
           tcall' = [op |-> "parse_select", fields |-> tcall.fields,
                     where |-> tcall.where, symbols |-> tcall.symbols,
                     postfix |-> parse_infix_postfix(tcall.symbols).output,
                     err |-> r.err, predicate |-> r.tree]
    /\ UNCHANGED tbl
    /\ UNCHANGED <<poolVars, fileVars>>

\* sql/worker.rs SQL::select on the query data parse_select returned
Select ==
    /\ tcall.op = "parse_select"
    /\ tcall.err = ""
    /\ \E r \in {SQL_select(tbl, tcall.predicate, tcall.fields)} :
           /\ tbl' = r.table
           /\ tcall' = [op |-> "select", fields |-> tcall.fields,
                        where |-> tcall.where, symbols |-> tcall.symbols,
                        predicate |-> tcall.predicate, err |-> r.err,
                        node |-> r.node,
                        result |-> [fields |-> r.fields, rows |-> r.rows]]
    /\ UNCHANGED <<poolVars, fileVars>>

NextWhere == ParseWhere \/ Select

SpecWhere == InitWhere /\ [][NextWhere]_vars

\* ------------------------------------------------- the lexer by character
\* a message as the sequence of its characters, each a string of length one;
\* a Symbol of this level has the characters of its name as name
CharSym(name, token, group) == [name |-> name, token |-> token, group |-> group]

\* char::is_ascii_alphabetic, char::is_digit(10) and the whitespace the lexer
\* matches, over the characters of the messages
is_ascii_alphabetic(ch) ==
    ch \in {"a", "b", "c", "e", "f", "i", "j", "l", "m", "n", "o", "r", "s", "t",
            "u", "A"}
is_digit(ch) == ch \in {"1", "2"}
is_whitespace(ch) == ch \in {" ", "\t", "\r", "\n"}

\* sql/lexer.rs is_identifier_char
is_identifier_char(ch) ==
    is_digit(ch) \/ is_ascii_alphabetic(ch) \/ ch \in {"'", ".", "\""}

\* str::to_lowercase on one character
char_to_lowercase(ch) == IF ch = "A" THEN "a" ELSE ch

\* str::trim: the whitespace at both ends removed
RECURSIVE str_trim(_)
str_trim(chars) ==
    IF chars = <<>> THEN chars
    ELSE IF is_whitespace(Head(chars)) THEN str_trim(Tail(chars))
    ELSE IF is_whitespace(Last(chars)) THEN str_trim(Front(chars))
    ELSE chars

\* sql/lexer.rs Scanner::new: the message in lower case, trimmed
Scanner_new(message) ==
    str_trim([i \in 1..Len(message) |-> char_to_lowercase(message[i])])

\* the string of a sequence of characters
RECURSIVE StringOf(_)
StringOf(chars) ==
    IF chars = <<>> THEN "" ELSE Head(chars) \o StringOf(Tail(chars))

\* a key of the keyword table as its words: the strings between its spaces
RECURSIVE WordsFrom(_, _, _, _)
WordsFrom(chars, i, word, words) ==
    IF i > Len(chars) THEN Append(words, word)
    ELSE IF chars[i] = " " THEN WordsFrom(chars, i + 1, "", Append(words, word))
    ELSE WordsFrom(chars, i + 1, word \o chars[i], words)

\* sql/symbol.rs SYMBOLS.get on the characters of a key; every entry of the
\* table has its key as name
symbols_get(chars) ==
    LET s == SYMBOLS(WordsFrom(chars, 1, "", <<>>)) IN
    IF s = NoSymbol THEN NoSymbol ELSE CharSym(chars, s.token, s.group)

\* sql/lexer.rs scan_tokens, lines 86-120: the loop over test_chars for one
\* candidate number of parts (total), from character q of the message on; it
\* gives test_str and step_counter as they are when the loop is left
RECURSIVE test_multi_keyword(_, _, _, _, _, _, _)
test_multi_keyword(message, q, test_str, is_last_letter, step_counter, following_parts, total) ==
    IF q > Len(message)
    THEN [test_str |-> test_str, step_counter |-> step_counter]
    ELSE LET y == message[q] IN
         IF is_ascii_alphabetic(y)
         THEN test_multi_keyword(message, q + 1, Append(test_str, y), TRUE,
                                 step_counter + 1, following_parts, total)
         ELSE IF ~is_whitespace(y)
         THEN [test_str |-> test_str, step_counter |-> step_counter]
         ELSE IF ~is_last_letter
         THEN test_multi_keyword(message, q + 1, test_str, is_last_letter,
                                 step_counter + 1, following_parts, total)
         ELSE IF following_parts + 1 = total - 1
         THEN [test_str |-> test_str, step_counter |-> step_counter]
         ELSE test_multi_keyword(message, q + 1, Append(test_str, " "), FALSE,
                                 step_counter + 1, following_parts + 1, total)

\* sql/lexer.rs scan_tokens, lines 67-143: the loop over the candidate numbers
\* of parts; the first candidate whose test_str is a key of the table
RECURSIVE match_multi_keyword(_, _, _, _)
match_multi_keyword(message, q, word, parts) ==
    IF parts = <<>> THEN [sym |-> NoSymbol, step_counter |-> 0]
    ELSE LET t == test_multi_keyword(message, q, Append(word, " "), FALSE, 0, 0,
                                     Head(parts))
         IN IF symbols_get(t.test_str) # NoSymbol
            THEN [sym |-> symbols_get(t.test_str), step_counter |-> t.step_counter]
            ELSE match_multi_keyword(message, q, word, Tail(parts))

\* sql/lexer.rs scan_tokens, lines 149-166: a single word is a keyword of the
\* table or an identifier
single_word(word) ==
    IF symbols_get(word) # NoSymbol THEN symbols_get(word)
    ELSE CharSym(word, "Identifier", "Identifier")

\* sql/lexer.rs Scanner::scan_tokens after n characters were taken from the
\* iterator.  The buffered word is message[cursor_l .. cursor_r]; it is
\* emitted when a whitespace or a delimiter is met, so a word that runs to
\* the end of the message is not emitted, and `*` resets the cursors without
\* emitting the word before it.
RECURSIVE scan_chars(_, _, _, _, _)
scan_chars(message, n, cursor_l, cursor_r, tokens) ==
    IF n >= Len(message) THEN [err |-> "", tokens |-> tokens]
    ELSE LET x == message[n + 1] IN
         IF is_identifier_char(x)
         THEN scan_chars(message, n + 1, cursor_l, cursor_r + 1, tokens)
         ELSE IF is_whitespace(x) \/ is_delimiter(x)
         THEN LET word == SubSeq(message, cursor_l + 1, cursor_r)
                  multi == IF cursor_l # cursor_r /\ ~is_delimiter(x)
                           THEN match_multi_keyword(message, n + 2, word,
                                    check_multi_keywords_front(StringOf(word)))
                           ELSE [sym |-> NoSymbol, step_counter |-> 0]
                  worded == IF cursor_l = cursor_r THEN tokens
                            ELSE IF multi.sym # NoSymbol THEN Append(tokens, multi.sym)
                            ELSE Append(tokens, single_word(word))
                  pushed == IF is_delimiter(x)
                            THEN Append(worded, CharSym(<<x>>, match_delimiter(x).token,
                                                        "Delimiter"))
                            ELSE worded
                  right == cursor_r + multi.step_counter + 1
              IN scan_chars(message, n + 1 + multi.step_counter, right, right, pushed)
         ELSE IF x = "*"
         THEN scan_chars(message, n + 1, cursor_r + 1, cursor_r + 1,
                         Append(tokens, CharSym(<<"*">>, "Identifier", "Identifier")))
         ELSE [err |-> "NotAllowedChar", tokens |-> tokens]

\* sql/lexer.rs Scanner::new(message).scan_tokens()
Scanner_scan_tokens(message) == scan_chars(Scanner_new(message), 0, 0, 0, <<>>)

\* ------------------------------------------------- the lexer on its own
\* sequences of characters joined with a separator between them
RECURSIVE JoinWith(_, _)
JoinWith(seqs, sep) ==
    IF seqs = <<>> THEN <<>>
    ELSE IF Len(seqs) = 1 THEN seqs[1]
    ELSE seqs[1] \o sep \o JoinWith(Tail(seqs), sep)

\* the words of the messages: identifiers, one in upper case and one ending
\* in a digit, and words of keywords
LexWords ==
    {<<"a">>, <<"A">>, <<"b", "1">>, <<"i", "s">>, <<"n", "o", "t">>,
     <<"n", "u", "l", "l">>}

\* what stands between two words, and at the end of a message
LexSeparators == {<<" ">>, <<" ", " ">>, <<"\t">>, <<",">>, <<"*">>, <<"=">>}
LexEnds == {<<>>, <<";">>, <<" ">>}

\* the messages of n words
RECURSIVE WordMessages(_)
WordMessages(n) ==
    IF n = 1 THEN LexWords
    ELSE {m \o s \o w : m \in WordMessages(n - 1), s \in LexSeparators, w \in LexWords}

\* the multi-word keywords of the table over the words of the model, each as
\* the sequence of its words
MultiKeywords ==
    {<< <<"i", "s">>, <<"n", "u", "l", "l">> >>,
     << <<"i", "s">>, <<"n", "o", "t">>, <<"n", "u", "l", "l">> >>,
     << <<"n", "o", "t">>, <<"n", "u", "l", "l">> >>,
     << <<"c", "r", "e", "a", "t", "e">>, <<"t", "a", "b", "l", "e">> >>,
     << <<"f", "u", "l", "l">>, <<"o", "u", "t", "e", "r">>, <<"j", "o", "i", "n">> >>}

\* the whitespace between the words of a keyword, what stands before the
\* keyword and what follows its last word
KeywordSeparators == {<<" ">>, <<" ", " ">>, <<"\t">>, <<"\n", " ">>}
KeywordPrefixes == {<<>>, <<"a", " ">>, <<"(">>}
KeywordRests ==
    {<<>>, <<";">>, <<" ", "a", ";">>, <<",", "a", " ", "a", ";">>,
     <<" ", " ", "(", "a", ")">>}

\* the predicate operators of sql/symbol.rs SYMBOLS (lines 233-239) as
\* characters, and the word operators; what stands around an operator
PredicateOperators ==
    {<<"=">>, <<"!", "=">>, <<"<", ">">>, <<"<">>, <<"<", "=">>, <<">">>,
     <<">", "=">>}
WordOperators == {<<"o", "r">>, <<"n", "o", "t">>}
OperatorSpaces == {<<>>, <<" ">>}

\* the message of an input: a keyword between a prefix and a rest, an
\* operator between two operands, or words
MessageOf(input) ==
    IF input.operator # <<>>
    THEN <<"a">> \o input.sep \o input.operator \o input.sep \o <<"1">> \o input.rest
    ELSE IF input.keyword = <<>> THEN input.words
    ELSE input.prefix \o JoinWith(input.keyword, input.sep) \o input.rest

LexInputs ==
    {[keyword |-> <<>>, words |-> m \o e, prefix |-> <<>>, sep |-> <<>>,
      rest |-> <<>>, operator |-> <<>>] :
        m \in UNION {WordMessages(n) : n \in 1..MaxWords}, e \in LexEnds}
    \cup {[keyword |-> k, words |-> <<>>, prefix |-> p, sep |-> s, rest |-> r,
            operator |-> <<>>] :
        k \in MultiKeywords, p \in KeywordPrefixes, s \in KeywordSeparators,
        r \in KeywordRests}
    \cup {[keyword |-> <<>>, words |-> <<>>, prefix |-> <<>>, sep |-> s, rest |-> r,
            operator |-> o] :
        o \in PredicateOperators, s \in OperatorSpaces, r \in {<<";">>, <<" ", ";">>}}
    \cup {[keyword |-> <<>>, words |-> <<>>, prefix |-> <<>>, sep |-> <<" ">>,
            rest |-> r, operator |-> o] :
        o \in WordOperators, r \in {<<";">>, <<" ", ";">>}}

InitLex ==
    /\ max_entry = POOL_SIZE
    /\ cache = [a \in Addrs |-> NoSQL]
    /\ freelist = <<>>
    /\ mutex = "free"
    /\ poisoned = FALSE
    /\ disk = DiskEmpty
    /\ username = [a \in Addrs |-> ""]
    /\ pc = [a \in Addrs |-> "none"]
    /\ resp = [a \in Addrs |-> NoResponse]
    /\ nreq = 0
    /\ recent = <<>>
    /\ ins = [a \in Addrs |-> <<>>]
    /\ unanswered = [a \in Addrs |-> 0]
    /\ hclog = NoHc
    /\ fs = FsFresh
    /\ fcall = NoCall
    /\ tbl = NoTable
    /\ \E input \in LexInputs :
           tcall = [op |-> "message", input |-> input, message |-> MessageOf(input)]

\* sql/lexer.rs Scanner::new(message).scan_tokens() on a message of LexInputs
ScanTokens ==
    /\ tcall.op = "message"
    /\ \E r \in {Scanner_scan_tokens(tcall.message)} :
           tcall' = [op |-> "scan_tokens", input |-> tcall.input,
                     message |-> tcall.message, err |-> r.err, tokens |-> r.tokens]
    /\ UNCHANGED tbl
    /\ UNCHANGED <<poolVars, fileVars>>

\* Scanner::new(..).scan_tokens() on the names of the tokens of an accepted
\* message, joined with single spaces
ScanJoined ==
    /\ tcall.op = "scan_tokens"
    /\ tcall.err = ""
    /\ \E joined \in {JoinWith([i \in 1..Len(tcall.tokens) |-> tcall.tokens[i].name],
                               <<" ">>)} :
       \E r \in {Scanner_scan_tokens(joined)} :
           tcall' = [op |-> "scan_joined", input |-> tcall.input,
                     message |-> tcall.message, tokens |-> tcall.tokens,
                     joined |-> joined, err |-> r.err, again |-> r.tokens]
    /\ UNCHANGED tbl
    /\ UNCHANGED <<poolVars, fileVars>>

NextLex == ScanTokens \/ ScanJoined

SpecLex == InitLex /\ [][NextLex]_vars

\* ------------------------------------------------- the index on its own
\* Vec<u8>::cmp: the lexicographic order of byte sequences
RECURSIVE BytesLess(_, _)
BytesLess(x, y) ==
    IF y = <<>> THEN FALSE
    ELSE IF x = <<>> THEN TRUE
    ELSE IF Head(x) # Head(y) THEN Head(x) < Head(y)
    ELSE BytesLess(Tail(x), Tail(y))

\* storage/index.rs RowPair::new
RowPairNew(row, key_value) == [row |-> row, key_value |-> key_value]

\* slice::sort_by on key_value, a stable sort: a pair goes behind the pairs
\* whose key is not greater than its own
RECURSIVE sort_by_key_value(_)
sort_by_key_value(pairs) ==
    IF pairs = <<>> THEN <<>>
    ELSE LET sorted == sort_by_key_value(Front(pairs))
             rp == Last(pairs)
             before == SelectSeq(sorted,
                           LAMBDA q : ~BytesLess(rp.key_value, q.key_value))
             after == SelectSeq(sorted,
                           LAMBDA q : BytesLess(rp.key_value, q.key_value))
         IN before \o <<rp>> \o after

\* storage/index.rs Index::build_from_bin, lines 111-123 with the test of the
\* __valid__ byte left out: a pair for every record
RECURSIVE index_pairs_of_all(_, _, _)
index_pairs_of_all(meta, chunk_bytes, row_id) ==
    IF row_id * meta.row_length >= Len(chunk_bytes) THEN <<>>
    ELSE LET row_bytes == ReadAt(chunk_bytes, row_id * meta.row_length, meta.row_length)
         IN <<RowPairNew(row_id, SubSeq(row_bytes, meta.attr_offset_ranges[2][1] + 1,
                                        meta.attr_offset_ranges[2][2]))>>
                \o index_pairs_of_all(meta, chunk_bytes, row_id + 1)

\* storage/index.rs Index::build_from_bin, lines 111-123: the loop over
\* chunk_bytes.chunks(row_length).enumerate() from record row_id on; the key
\* is the slice attr_offset_ranges[1] of the record
RECURSIVE index_pairs_of(_, _, _)
index_pairs_of(meta, chunk_bytes, row_id) ==
    IF row_id * meta.row_length >= Len(chunk_bytes) THEN <<>>
    ELSE LET row_bytes == ReadAt(chunk_bytes, row_id * meta.row_length, meta.row_length)
             rest == index_pairs_of(meta, chunk_bytes, row_id + 1)
         IN IF row_bytes[1] = 1
            THEN <<RowPairNew(row_id, SubSeq(row_bytes,
                                             meta.attr_offset_ranges[2][1] + 1,
                                             meta.attr_offset_ranges[2][2]))>> \o rest
            ELSE rest

\* a new_index_data that holds a pair for the tombstoned records too
new_index_data_of_all(meta, chunk_bytes) == index_pairs_of_all(meta, chunk_bytes, 0)

\* storage/index.rs Index::build_from_bin, lines 110-123: new_index_data
\* before it is sorted
new_index_data_of(meta, chunk_bytes) == index_pairs_of(meta, chunk_bytes, 0)

\* storage/index.rs Index::build_from_bin on an Index made by Index::new of
\* the table's loaded meta: the error and the new index_data
Index_build_from_bin(f, user_name, db_name, table_name) ==
    LET chk == File_storage_hierarchy_check(f, user_name, db_name, table_name) IN
    IF chk # "" THEN [err |-> chk, index_data |-> <<>>]
    ELSE LET meta == table_meta_target(f, user_name, db_name, table_name)
             chunk_bytes == f.table_bin[<<user_name, db_name, table_name>>].bytes
         IN [err |-> "",
             index_data |-> sort_by_key_value(new_index_data_of(meta, chunk_bytes))]

\* the sequences of at most n rows
RECURSIVE IndexRowSeqs(_)
IndexRowSeqs(n) ==
    IF n = 0 THEN {<<>>}
    ELSE IndexRowSeqs(n - 1)
             \cup {Append(rows, r) : rows \in {q \in IndexRowSeqs(n - 1) : Len(q) = n - 1},
                                     r \in FileRows}

\* delete_rows of the one-record ranges of the positions from i on that are
\* in deleted; a call that fails leaves the files as they are
RECURSIVE DeleteEach(_, _, _)
DeleteEach(f, deleted, i) ==
    IF i >= MaxIndexRecords THEN f
    ELSE DeleteEach(IF i \in deleted
                    THEN File_delete_rows(f, "u1", "db1", "t1", <<i, i + 1>>).fs
                    ELSE f,
                    deleted, i + 1)

\* the files after create_username, create_db, create_table of a table,
\* append_rows of rows and delete_rows of some records, as test_build_from_bin
\* prepares them; and files without the table
IndexFiles ==
    {File_create_db(File_create_username(FsFresh, "u1").fs, "u1", "db1").fs}
    \cup {DeleteEach(
              File_append_rows(
                  File_create_table(
                      File_create_db(File_create_username(FsFresh, "u1").fs,
                                     "u1", "db1").fs,
                      "u1", "db1", table).fs,
                  "u1", "db1", "t1", rows).fs,
              deleted, 0) :
          table \in FileTables, rows \in IndexRowSeqs(MaxIndexRecords),
          deleted \in SUBSET (0..(MaxIndexRecords - 1))}

InitIndex ==
    /\ max_entry = POOL_SIZE
    /\ cache = [a \in Addrs |-> NoSQL]
    /\ freelist = <<>>
    /\ mutex = "free"
    /\ poisoned = FALSE
    /\ disk = DiskEmpty
    /\ username = [a \in Addrs |-> ""]
    /\ pc = [a \in Addrs |-> "none"]
    /\ resp = [a \in Addrs |-> NoResponse]
    /\ nreq = 0
    /\ recent = <<>>
    /\ ins = [a \in Addrs |-> <<>>]
    /\ unanswered = [a \in Addrs |-> 0]
    /\ hclog = NoHc
    /\ fs \in IndexFiles
    /\ fcall = NoCall
    /\ tbl = NoTable
    /\ tcall = NoCall

\* Index::new(load_table_meta(..)) then build_from_bin
IndexBuildFromBin ==
    /\ fcall = NoCall
    /\ \E r \in {Index_build_from_bin(fs, "u1", "db1", "t1")} :
           fcall' = [op |-> "build_from_bin", err |-> r.err, index_data |-> r.index_data]
    /\ UNCHANGED fs
    /\ UNCHANGED <<poolVars, tableVars>>

NextIndex == IndexBuildFromBin

SpecIndex == InitIndex /\ [][NextIndex]_vars

\* ------------------------------------------------- find_ptr on its own
\* the key arrays of a node: ascending, at most n keys
RECURSIVE KeyArrays(_)
KeyArrays(n) ==
    IF n = 0 THEN {<<>>}
    ELSE LET shorter == KeyArrays(n - 1)
             longest == {q \in shorter : Len(q) = n - 1}
         IN shorter \cup
            {x \in {Append(arr, k) : arr \in longest, k \in 1..MaxKey} :
                 Len(x) = 1 \/ x[Len(x) - 1] <= x[Len(x)]}

\* a test that also sends a key equal to val to the left
find_ptr_goes_left_on_equal(key, val) == key >= val

\* index/btree.rs find_ptr, line 128: `arr[m as usize] > val`
find_ptr_goes_left(key, val) == key > val

\* find_ptr(arr, 0, arr.len(), val) is called: l, r and pos before the loop
\* (index/btree.rs lines 123-125)
InitFind ==
    /\ max_entry = POOL_SIZE
    /\ cache = [a \in Addrs |-> NoSQL]
    /\ freelist = <<>>
    /\ mutex = "free"
    /\ poisoned = FALSE
    /\ disk = DiskEmpty
    /\ username = [a \in Addrs |-> ""]
    /\ pc = [a \in Addrs |-> "none"]
    /\ resp = [a \in Addrs |-> NoResponse]
    /\ nreq = 0
    /\ recent = <<>>
    /\ ins = [a \in Addrs |-> <<>>]
    /\ unanswered = [a \in Addrs |-> 0]
    /\ hclog = NoHc
    /\ fs = FsFresh
    /\ fcall = NoCall
    /\ tbl = NoTable
    /\ \E arr \in KeyArrays(MaxKeys), val \in 0..(MaxKey + 1) :
           tcall = [op |-> "find_ptr", arr |-> arr, val |-> val,
                    l |-> 0, r |-> Len(arr), pos |-> 0]

\* index/btree.rs find_ptr, lines 126-135: one turn of `while l < r`
FindPtrLoop ==
    /\ tcall.op = "find_ptr"
    /\ tcall.l < tcall.r
    /\ LET m == tcall.l + (tcall.r - tcall.l) \div 2 IN
       IF find_ptr_goes_left(tcall.arr[m + 1], tcall.val)
       THEN tcall' = [tcall EXCEPT !.r = m, !.pos = m]
       ELSE tcall' = [tcall EXCEPT !.l = m + 1, !.pos = m + 1]
    /\ UNCHANGED tbl
    /\ UNCHANGED <<poolVars, fileVars>>

\* index/btree.rs find_ptr, lines 126 and 136: the loop is left, pos returned
FindPtrReturn ==
    /\ tcall.op = "find_ptr"
    /\ ~(tcall.l < tcall.r)
    /\ tcall' = [tcall EXCEPT !.op = "find_ptr_returned"]
    /\ UNCHANGED tbl
    /\ UNCHANGED <<poolVars, fileVars>>

NextFind == FindPtrLoop \/ FindPtrReturn

SpecFind == InitFind /\ [][NextFind]_vars

\* a call that is running goes on running
SpecFindLive == SpecFind /\ WF_vars(NextFind)

\* ----------------------------------------- operator_filter_rows on its own
\* the comparisons operator_filter_rows is called with
FilterOperators == {"=", ">", "<", "!="}
FilterValues == {"1", "2"}

\* what a run has done so far: the last call, the set the last
\* operator_filter_rows returned and the one before it, and the set the last
\* set_row_set was given; <<>> stands for none
NoFilterCall ==
    [op |-> "table", field_name |-> "", operator |-> "", value |-> "",
     out |-> <<>>, prev |-> <<>>, given |-> <<>>]

InitFilter ==
    /\ max_entry = POOL_SIZE
    /\ cache = [a \in Addrs |-> NoSQL]
    /\ freelist = <<>>
    /\ mutex = "free"
    /\ poisoned = FALSE
    /\ disk = DiskEmpty
    /\ username = [a \in Addrs |-> ""]
    /\ pc = [a \in Addrs |-> "none"]
    /\ resp = [a \in Addrs |-> NoResponse]
    /\ nreq = 0
    /\ recent = <<>>
    /\ ins = [a \in Addrs |-> <<>>]
    /\ unanswered = [a \in Addrs |-> 0]
    /\ hclog = NoHc
    /\ fs = FsFresh
    /\ fcall = NoCall
    /\ tbl \in WhereTables
    /\ tcall = NoFilterCall

\* component/table.rs Table::operator_filter_rows
OperatorFilterRows ==
    \E field_name \in WhereFieldNames, operator \in FilterOperators,
       value \in FilterValues :
        \E r \in {operator_filter_rows(tbl, field_name, operator, value)} :
            /\ tbl' = r.table
            /\ tcall' = [tcall EXCEPT !.op = "operator_filter_rows",
                                      !.field_name = field_name,
                                      !.operator = operator,
                                      !.value = value,
                                      !.out = <<r.set>>,
                                      !.prev = tcall.out]
            /\ UNCHANGED <<poolVars, fileVars>>

\* component/table.rs Table::set_row_set, with a set of row indices of the
\* table
SetRowSet ==
    \E set \in SUBSET get_all_rows_set(tbl) :
        /\ tbl' = set_row_set(tbl, set)
        /\ tcall' = [tcall EXCEPT !.op = "set_row_set", !.given = <<set>>]
        /\ UNCHANGED <<poolVars, fileVars>>

NextFilter == OperatorFilterRows \/ SetRowSet

SpecFilter == InitFilter /\ [][NextFilter]_vars

\* ------------------------------------------- write_back called again
\* a session of two tables: the names, a row that append_rows can encode and
\* one it cannot (insert_row does not look at the datatype)
RetryTableNames == {"t1", "t2"}
RetryRow(value) == [RowNew EXCEPT !.data["a"] = value]

RECURSIVE RetryRowSeqs(_)
RetryRowSeqs(n) ==
    IF n = 0 THEN {<<>>}
    ELSE RetryRowSeqs(n - 1)
         \cup {Append(rs, RetryRow(v)) :
                   rs \in {x \in RetryRowSeqs(n - 1) : Len(x) = n - 1},
                   v \in {"1", "x"}}

\* a table of the session: created in it (is_dirty) or loaded from the disk
\* (load_db, not dirty), with the rows inserted in the session
RetryTables(name) ==
    {NoTable} \cup
    {[HcTable EXCEPT !.name = name, !.rows = rs, !.is_dirty = td] :
        rs \in RetryRowSeqs(MaxHcRows), td \in BOOLEAN}

\* the sessions: the database created in the session or loaded from the disk
RetrySessions ==
    {[SQLNew("u1") EXCEPT !.database =
          [name |-> "db1", tables |-> tables, is_dirty |-> dd, is_delete |-> FALSE]] :
        tables \in {[t \in RetryTableNames |->
                        IF t = "t1" THEN x[1] ELSE x[2]] :
                    x \in RetryTables("t1") \X RetryTables("t2")},
        dd \in BOOLEAN}

\* the disks: the user; the database; the database with the file of t1, of
\* t2, of both; every row file is empty
RetryDiskEmpty ==
    [usernames |-> {"u1"},
     dbs |-> {},
     tables |-> [k \in Users \X DbNames \X RetryTableNames |-> NoFile]]

RetryDiskDb == create_db(RetryDiskEmpty, "u1", "db1").disk
RetryDiskT1 ==
    create_table(RetryDiskDb, "u1", "db1", [HcTable EXCEPT !.name = "t1"]).disk
RetryDiskT2 ==
    create_table(RetryDiskDb, "u1", "db1", [HcTable EXCEPT !.name = "t2"]).disk
RetryDiskBoth ==
    create_table(RetryDiskT1, "u1", "db1", [HcTable EXCEPT !.name = "t2"]).disk

RetryDisks == {RetryDiskEmpty, RetryDiskDb, RetryDiskT1, RetryDiskT2, RetryDiskBoth}

\* a database or a table of a session that is not dirty was loaded from the
\* disk (load_db), so it is there
LoadedIsOnDisk(sq, d) ==
    /\ ~sq.database.is_dirty => <<"u1", "db1">> \in d.dbs
    /\ \A t \in RetryTableNames :
           (sq.database.tables[t] # NoTable /\ ~sq.database.tables[t].is_dirty)
           => d.tables[<<"u1", "db1", t>>] # NoFile

InitRetry ==
    /\ max_entry = POOL_SIZE
    /\ \E sq \in RetrySessions :
           /\ cache = [a \in Addrs |-> IF a = "a1" THEN sq ELSE NoSQL]
           /\ hclog = [sql |-> sq, calls |-> 0, res |-> <<>>]
           /\ disk \in {d \in RetryDisks : LoadedIsOnDisk(sq, d)}
    /\ freelist = <<"a1">>
    /\ mutex = "free"
    /\ poisoned = FALSE
    /\ username = [a \in Addrs |-> IF a = "a1" THEN "u1" ELSE ""]
    /\ pc = [a \in Addrs |-> "none"]
    /\ resp = [a \in Addrs |-> NoResponse]
    /\ nreq = 0
    /\ recent = <<"a1">>
    /\ ins = [a \in Addrs |-> <<>>]
    /\ unanswered = [a \in Addrs |-> 0]
    /\ fs = FsFresh
    /\ fcall = NoCall
    /\ tbl = NoTable
    /\ tcall = NoCall

\* manager/pool.rs Pool::write_back of the session's address, as Pool::insert
\* calls it for the address it evicts and main.rs process when the
\* connection ends; the tables are met in any order of the HashMap
RetryWriteBack ==
    /\ hclog.calls < MaxWriteBacks
    /\ \E order \in Perms({t \in RetryTableNames :
                              hclog.sql.database.tables[t] # NoTable}) :
        \E r \in {write_back(cache, freelist, disk, "a1", order)} :
        /\ cache' = r.cache
        /\ freelist' = r.freelist
        /\ disk' = r.disk
        /\ hclog' = [hclog EXCEPT !.calls = @ + 1, !.res = Append(@, r.res)]
    /\ UNCHANGED <<max_entry, mutex, poisoned, username, pc, resp, nreq, recent, ins,
                   unanswered>>
    /\ UNCHANGED <<fileVars, tableVars>>

NextRetry == RetryWriteBack

SpecRetry == InitRetry /\ [][NextRetry]_vars

\* ------------------------------------------------------- statement claims
\* the rows table t of a session holds, none for a table it does not have
TableRowsOf(sql, t) ==
    IF sql = NoSQL THEN <<>>
    ELSE IF sql.database.tables[t] = NoTable THEN <<>>
    ELSE sql.database.tables[t].rows

\* C21: an INSERT with several value tuples is all-or-nothing: when a request
\* line is answered with an error, no table of the session it ran on holds
\* a row it did not hold before the line.
C21_InsertAllOrNothing ==
    [][\A c \in Conns :
          (ReadLine(c) /\ resp'[c].status = "Error"
              /\ cache[c] # NoSQL /\ cache'[c] # NoSQL
              /\ cache'[c].database.name = cache[c].database.name)
          => \A t \in TableNames :
                 TableRowsOf(cache'[c], t) = TableRowsOf(cache[c], t)]_vars

\* the table of a session as the clone SQL::select works on: its declared
\* fields, its rows, and the flags of Table::new
VirtualTable(table) ==
    LET declared == {f \in FieldNames : table.fields[f] # NoField} IN
    [name |-> table.name,
     fields |-> [f \in declared |-> table.fields[f]],
     rows |-> [i \in 1..Len(table.rows) |->
                  [table.rows[i] EXCEPT !.data = [f \in declared |-> @[f]]]],
     is_data_loaded |-> FALSE, is_predicate_init |-> FALSE, row_set |-> {}]

\* the selection of the query data of a session over the table it names, as
\* SQL::select computes it
SelectionOf(sql) ==
    LET r == SQL_select(VirtualTable(sql.database.tables[sql.querydata.tables[1]]),
                        NoNode, sql.querydata.fields)
    IN [fields |-> r.fields, rows |-> r.rows]

\* the line connection c sent was a SELECT from one table the session has,
\* and it was answered OK: the query data of the session are new
SelectProcessed(c) ==
    /\ ReadLine(c)
    /\ resp'[c].status = "OK"
    /\ cache'[c] # NoSQL
    /\ cache'[c].querydata #
           (IF cache[c] = NoSQL THEN QueryDataNew ELSE cache[c].querydata)
    /\ Len(cache'[c].querydata.tables) = 1
    /\ cache'[c].querydata.tables[1] \in TableNames
    /\ cache'[c].database.tables[cache'[c].querydata.tables[1]] # NoTable

\* C24: after a session has successfully processed a single-table SELECT, its
\* result_json is the JSON object {fields, rows} of that selection: the
\* fields in the requested order and the rows sorted.
C24_SelectFillsResultJson ==
    [][\A c \in Conns :
          SelectProcessed(c) => cache'[c].result_json = <<SelectionOf(cache'[c])>>]_vars

\* ---------------------------------------------------------- select claims
\* a tree of comparisons of a column with an integer, combined with AND, OR
\* and NOT
RECURSIVE IsPredicateTree(_)
IsPredicateTree(node) ==
    IF node = NoNode THEN FALSE
    ELSE IF node.root \in {"and", "or"}
    THEN IsPredicateTree(node.left) /\ IsPredicateTree(node.right)
    ELSE IF node.root = "not"
    THEN node.left = NoNode /\ IsPredicateTree(node.right)
    ELSE /\ node.root \in {"=", ">", ">=", "<"}
         /\ node.left # NoNode /\ node.right # NoNode
         /\ node.left.root \in WhereFieldNames
         /\ node.left.left = NoNode /\ node.left.right = NoNode
         /\ IsIntText(node.right.root)
         /\ node.right.left = NoNode /\ node.right.right = NoNode

\* the indices of the rows of the table that satisfy a predicate tree
RECURSIVE Satisfying(_, _)
Satisfying(table, node) ==
    IF node.root = "and"
    THEN Satisfying(table, node.left) \cap Satisfying(table, node.right)
    ELSE IF node.root = "or"
    THEN Satisfying(table, node.left) \cup Satisfying(table, node.right)
    ELSE IF node.root = "not"
    THEN get_all_rows_set(table) \ Satisfying(table, node.right)
    ELSE {i \in get_all_rows_set(table) :
             cmp(ParseInt(table.rows[i + 1].data[node.left.root]), node.root,
                 ParseInt(node.right.root))}

\* the number of binary and unary operators from the root to the deepest leaf
RECURSIVE TreeDepth(_)
TreeDepth(node) ==
    IF node = NoNode THEN 0
    ELSE LET l == TreeDepth(node.left)
             r == TreeDepth(node.right)
         IN 1 + (IF l > r THEN l ELSE r)

\* C23: for every predicate tree built from comparisons combined with AND, OR
\* and NOT at any nesting depth, SQL::select succeeds, the set of the root
\* after table_predicate is the set of the indices of the rows that satisfy
\* the predicate, and the rows selected are exactly those rows.
C23_RootSetIsSatisfyingSet ==
    (tcall.op = "select" /\ tcall.where /\ IsPredicateTree(tcall.predicate))
    => /\ tcall.err = ""
       /\ tcall.node.set = Satisfying(tbl, tcall.predicate)
       /\ tbl.row_set = Satisfying(tbl, tcall.predicate)
       /\ Len(tcall.result.rows) = Cardinality(Satisfying(tbl, tcall.predicate))

\* the same for a single comparison and for AND or OR of two comparisons
C23_HoldsWithoutNesting ==
    (tcall.op = "select" /\ tcall.where /\ IsPredicateTree(tcall.predicate)
        /\ tcall.predicate.root # "not" /\ TreeDepth(tcall.predicate) <= 3)
    => /\ tcall.err = ""
       /\ tcall.node.set = Satisfying(tbl, tcall.predicate)
       /\ tbl.row_set = Satisfying(tbl, tcall.predicate)
       /\ Len(tcall.result.rows) = Cardinality(Satisfying(tbl, tcall.predicate))

\* the records of the row file of the table a session selects from, none
\* when the file does not exist
RowFileOf(d, sql) ==
    LET key == <<sql.user, sql.database.name, sql.querydata.tables[1]>> IN
    IF key \notin DOMAIN d.tables THEN <<>>
    ELSE IF d.tables[key] = NoFile THEN <<>>
    ELSE d.tables[key].bin

\* C25: a single-table SELECT in a session whose database was loaded from
\* disk is evaluated over the rows stored in the row file of the table:
\* every record of the file is a row of the selection.
C25_SelectReadsRowFile ==
    [][\A c \in Conns :
          (SelectProcessed(c) /\ ~cache'[c].database.is_dirty)
          => LET sel == SelectionOf(cache'[c])
                 bin == RowFileOf(disk', cache'[c])
             IN \A i \in 1..Len(bin) : \E j \in 1..Len(sel.rows) :
                    \A k \in 1..Len(sel.fields) :
                        ParseInt(sel.rows[j][k]) = bin[i].attrs[sel.fields[k]]]_vars

\* ------------------------------------------------- predicate parser claims
\* the lexemes of a WHERE body by kind
IsComparisonName(name) == name \in {"=", ">", ">=", "<"}
IsConnectiveName(name) == name \in {"and", "or"}
IsOperandName(name) ==
    ~IsComparisonName(name) /\ ~IsConnectiveName(name) /\ name \notin {"not", "(", ")"}

\* no parse
NoParse == [end |-> 0, out |-> <<>>]

\* a predicate read by its grammar, with the precedences comparison > NOT >
\* AND = OR and AND/OR associating to the left:
\*     expr ::= term { (and | or) term }
\*     term ::= not term | ( expr ) | operand comparison operand
\* each operator gives the position after the part read from position i and
\* that part in postfix: the operands in their order, every operator after
\* its operands; end = 0 when position i does not start such a part
RECURSIVE TermAt(_, _), ExprAt(_, _), ExprRest(_, _, _)
TermAt(s, i) ==
    IF i > Len(s) THEN NoParse
    ELSE IF s[i] = "not"
    THEN LET t == TermAt(s, i + 1)
         IN IF t.end = 0 THEN NoParse
            ELSE [end |-> t.end, out |-> t.out \o <<"not">>]
    ELSE IF s[i] = "("
    THEN LET e == ExprAt(s, i + 1)
         IN IF e.end = 0 \/ e.end > Len(s) THEN NoParse
            ELSE IF s[e.end] # ")" THEN NoParse
            ELSE [end |-> e.end + 1, out |-> e.out]
    ELSE IF i + 2 > Len(s) THEN NoParse
    ELSE IF IsOperandName(s[i]) /\ IsComparisonName(s[i + 1]) /\ IsOperandName(s[i + 2])
    THEN [end |-> i + 3, out |-> <<s[i], s[i + 2], s[i + 1]>>]
    ELSE NoParse

ExprAt(s, i) ==
    LET t == TermAt(s, i)
    IN IF t.end = 0 THEN NoParse ELSE ExprRest(s, t.end, t.out)

ExprRest(s, j, out) ==
    IF j > Len(s) THEN [end |-> j, out |-> out]
    ELSE IF ~IsConnectiveName(s[j]) THEN [end |-> j, out |-> out]
    ELSE LET t == TermAt(s, j + 1)
         IN IF t.end = 0 THEN NoParse
            ELSE ExprRest(s, t.end, out \o t.out \o <<s[j]>>)

\* the body is a predicate of the grammar; its postfix form
WellFormed(names) == ExprAt(names, 1).end = Len(names) + 1
PostfixOf(names) == ExprAt(names, 1).out

\* the operands of a sequence of lexemes, in their order
OperandsOf(names) == SelectSeq(names, IsOperandName)

\* parse_predicate was run on the body of a WHERE
ParsedWhere == tcall.op = "parse_select" /\ tcall.where

\* C26: for a well-formed predicate, parse_infix_postfix emits the operands
\* in their input order, emits no parenthesis, and emits each operator after
\* its operands according to the precedences comparison = 3, NOT = 2,
\* AND/OR = 1, AND and OR associating to the left: its output is the postfix
\* form of the predicate; `not a1 = 3 and b2 >= 5` gives
\* `a1 3 = not b2 5 >= and`.
C26_InfixToPostfix ==
    (ParsedWhere /\ WellFormed(SymbolNames(tcall.symbols)))
    => LET names == SymbolNames(tcall.symbols)
           postfix == SymbolNames(tcall.postfix)
       IN /\ OperandsOf(postfix) = OperandsOf(names)
          /\ \A i \in 1..Len(postfix) : postfix[i] \notin {"(", ")"}
          /\ postfix = PostfixOf(names)
          /\ names = BodyOfTest
                 => postfix = <<"a1", "3", "=", "not", "b2", "5", ">=", "and">>

\* a NOT directly followed by a NOT
HasNotNot(names) ==
    \E i \in 1..(Len(names) - 1) : names[i] = "not" /\ names[i + 1] = "not"

\* the same for the predicates that have no NOT directly followed by a NOT
C26_HoldsWithoutNotNot ==
    (ParsedWhere /\ WellFormed(SymbolNames(tcall.symbols))
        /\ ~HasNotNot(SymbolNames(tcall.symbols)))
    => LET names == SymbolNames(tcall.symbols)
           postfix == SymbolNames(tcall.postfix)
       IN /\ OperandsOf(postfix) = OperandsOf(names)
          /\ \A i \in 1..Len(postfix) : postfix[i] \notin {"(", ")"}
          /\ postfix = PostfixOf(names)
          /\ names = BodyOfTest
                 => postfix = <<"a1", "3", "=", "not", "b2", "5", ">=", "and">>

\* a sequence of lexemes with the parentheses removed
WithoutParentheses(names) == SelectSeq(names, LAMBDA n : n \notin {"(", ")"})

\* C27: for every WHERE body parse_predicate accepts, the in-order traversal
\* of the tree it returns is the body with the parentheses removed.
C27_InOrderIsInput ==
    (ParsedWhere /\ tcall.err = "")
    => in_order(tcall.predicate) = WithoutParentheses(SymbolNames(tcall.symbols))

\* the same for the bodies that are predicates of the grammar
C27_HoldsForWellFormed ==
    (ParsedWhere /\ tcall.err = "" /\ WellFormed(SymbolNames(tcall.symbols)))
    => in_order(tcall.predicate) = WithoutParentheses(SymbolNames(tcall.symbols))

\* the parentheses of a body match: none closes what was not opened and none
\* stays open
RECURSIVE ParenthesesMatchFrom(_, _, _)
ParenthesesMatchFrom(names, i, open) ==
    IF i > Len(names) THEN open = 0
    ELSE IF names[i] = "(" THEN ParenthesesMatchFrom(names, i + 1, open + 1)
    ELSE IF names[i] = ")"
    THEN open > 0 /\ ParenthesesMatchFrom(names, i + 1, open - 1)
    ELSE ParenthesesMatchFrom(names, i + 1, open)

ParenthesesMatch(names) == ParenthesesMatchFrom(names, 1, 0)

\* a postfix sequence reduces to exactly one tree: every operator finds its
\* operands among the trees built before it, and one tree is left at the end
RECURSIVE ReducesFrom(_, _, _)
ReducesFrom(postfix, i, trees) ==
    IF i > Len(postfix) THEN trees = 1
    ELSE IF IsOperandName(postfix[i]) THEN ReducesFrom(postfix, i + 1, trees + 1)
    ELSE IF postfix[i] = "not" THEN trees >= 1 /\ ReducesFrom(postfix, i + 1, trees)
    ELSE IF postfix[i] \in {"(", ")"} THEN FALSE
    ELSE trees >= 2 /\ ReducesFrom(postfix, i + 1, trees - 1)

ReducesToOneTree(postfix) == ReducesFrom(postfix, 1, 0)

\* a body with an unmatched parenthesis, or whose postfix form does not reduce
\* to exactly one tree
Malformed ==
    \/ ~ParenthesesMatch(SymbolNames(tcall.symbols))
    \/ ~ReducesToOneTree(SymbolNames(tcall.postfix))

\* C28: a WHERE body with an unmatched `(` or `)`, or whose postfix form does
\* not reduce to exactly one tree (an operator lacking an operand, a surplus
\* operand, the empty body), is rejected with a SyntaxError and yields no
\* predicate tree.
C28_MalformedRejected ==
    (ParsedWhere /\ Malformed)
    => tcall.err = "SyntaxError" /\ tcall.predicate = NoNode

\* the part that holds: a body whose postfix form does not reduce to exactly
\* one tree yields no predicate tree
C28_HoldsInPart ==
    (ParsedWhere /\ ~ReducesToOneTree(SymbolNames(tcall.postfix)))
    => tcall.err # "" /\ tcall.predicate = NoNode

\* ------------------------------------------------------------ lexer claims
\* C29: for every message scan_tokens accepts, the names of its tokens joined
\* with single spaces are a message scan_tokens accepts and tokenizes to the
\* same tokens.
C29_LexerRoundTrip ==
    tcall.op = "scan_joined" => (tcall.err = "" /\ tcall.again = tcall.tokens)

\* the same for the accepted messages whose last token is a delimiter
C29_HoldsBeforeDelimiter ==
    (tcall.op = "scan_joined" /\ tcall.tokens # <<>>
        /\ Last(tcall.tokens).group = "Delimiter")
    => (tcall.err = "" /\ tcall.again = tcall.tokens)

\* the tokens of what stands before a keyword: those of the prefix scanned
\* up to a closing semicolon, without the semicolon
PrefixTokens(prefix) ==
    Front(Scanner_scan_tokens(prefix \o <<";">>).tokens)

\* the tokens of what follows a keyword, scanned as after the single word
\* keyword `from`
FollowingTokens(rest) ==
    IF rest = <<>> THEN <<>>
    ELSE Tail(Scanner_scan_tokens(<<"f", "r", "o", "m">> \o rest).tokens)

\* the one symbol of a multi-word keyword of the table
KeywordSymbol(keyword) ==
    symbols_get(JoinWith(keyword, <<" ">>))

\* a scanned message that spells a multi-word keyword followed by something
KeywordScanned ==
    /\ tcall.op = "scan_tokens"
    /\ tcall.input.keyword # <<>>
    /\ tcall.input.rest # <<>>

\* C30: a word followed by whitespace-separated words that spell a multi-word
\* keyword of the table is lexed as one symbol of that keyword, named by its
\* words joined with single spaces, and the tokens that follow are those
\* that follow a single-word keyword.
C30_MultiKeywordIsOneSymbol ==
    KeywordScanned =>
        /\ tcall.err = ""
        /\ KeywordSymbol(tcall.input.keyword) # NoSymbol
        /\ tcall.tokens = PrefixTokens(tcall.input.prefix)
                            \o <<KeywordSymbol(tcall.input.keyword)>>
                            \o FollowingTokens(tcall.input.rest)

\* the same for the keywords whose number of words check_multi_keywords_front
\* lists for their first word
C30_HoldsForListedKeywords ==
    (KeywordScanned
        /\ tcall.input.keyword[1] # <<"f", "u", "l", "l">>)
    => /\ tcall.err = ""
       /\ tcall.tokens = PrefixTokens(tcall.input.prefix)
                           \o <<KeywordSymbol(tcall.input.keyword)>>
                           \o FollowingTokens(tcall.input.rest)

\* the token sql/symbol.rs SYMBOLS holds for an operator
OperatorToken(operator) ==
    CASE operator = <<"=">> -> "EQ"
      [] operator \in {<<"!", "=">>, <<"<", ">">>} -> "NE"
      [] operator = <<"<">> -> "LT"
      [] operator = <<"<", "=">> -> "LE"
      [] operator = <<">">> -> "GT"
      [] operator = <<">", "=">> -> "GE"
      [] operator = <<"o", "r">> -> "OR"
      [] operator = <<"n", "o", "t">> -> "NOT"

\* the tokens of `a <operator> 1 ;` with the operator as one symbol
OperatorTokens(operator) ==
    <<CharSym(<<"a">>, "Identifier", "Identifier"),
      CharSym(operator, OperatorToken(operator), "Operator"),
      CharSym(<<"1">>, "Identifier", "Identifier"),
      CharSym(<<";">>, "Semicolon", "Delimiter")>>

\* C31: a statement holding one of the predicate operators =, !=, <>, <, <=,
\* >, >= is tokenized, the operator becoming one symbol of group Operator, and
\* does not fail with NotAllowedChar.
C31_OperatorsTokenized ==
    (tcall.op = "scan_tokens" /\ tcall.input.operator \in PredicateOperators)
    => /\ tcall.err = ""
       /\ tcall.tokens = OperatorTokens(tcall.input.operator)

\* the same for the operators that are words, set off by spaces
C31_HoldsForWordOperators ==
    (tcall.op = "scan_tokens" /\ tcall.input.operator \in WordOperators)
    => /\ tcall.err = ""
       /\ tcall.tokens = OperatorTokens(tcall.input.operator)

\* every message holding a predicate operator is refused
C31_EveryOperatorRefused ==
    (tcall.op = "scan_tokens" /\ tcall.input.operator \in PredicateOperators)
    => tcall.err = "NotAllowedChar"

\* ------------------------------------------------------------ index claims
\* the record at physical position i of t1.bin
RecordAt(f, i) ==
    ReadAt(BytesOf(f), i * MetaOf(f).row_length, MetaOf(f).row_length)

\* the bytes of the key of a record: those of the attribute that follows
\* __valid__ in the order the table was created with
KeyBytesOf(f, i) ==
    LET attr == MetaOf(f).attrs_order[2]
        width == get_datatype_size(MetaOf(f).attrs[attr])
    IN SubSeq(RecordAt(f, i), 2, 1 + width)

BuiltFromBin == fcall.op = "build_from_bin" /\ fcall.err = ""

\* C32: build_from_bin yields exactly one (row_index, key bytes) pair for each
\* record of the row file whose __valid__ byte is 1 and none for a tombstoned
\* record, row_index being the physical position of the record, and the
\* pairs are in ascending order of their key bytes.
C32_BuildFromBin ==
    BuiltFromBin =>
        LET n == NumRecords(BytesOf(fs), MetaOf(fs).row_length)
            out == fcall.index_data
        IN /\ \A i \in 0..(n - 1) :
                  Cardinality({j \in 1..Len(out) : out[j].row = i})
                      = IF RecordAt(fs, i)[1] = 1 THEN 1 ELSE 0
           /\ \A j \in 1..Len(out) :
                  /\ out[j].row \in 0..(n - 1)
                  /\ out[j].key_value = KeyBytesOf(fs, out[j].row)
           /\ \A j \in 1..Len(out), k \in 1..Len(out) :
                  j < k => ~BytesLess(out[k].key_value, out[j].key_value)

\* an index built from a file with a tombstoned record before two live ones
\* whose keys are not in physical order
C32_Witness ==
    /\ BuiltFromBin
    /\ NumRecords(BytesOf(fs), MetaOf(fs).row_length) = 3
    /\ RecordAt(fs, 0)[1] = 0
    /\ Len(fcall.index_data) = 2
    /\ fcall.index_data[1].row = 2
    /\ fcall.index_data[2].row = 1

\* ------------------------------------------------------------ find_ptr claims
\* the keys of arr that are not greater than val
KeysUpTo(arr, val) == Cardinality({i \in 1..Len(arr) : arr[i] <= val})

\* the index (from 0) of the smallest key greater than val, the length of
\* arr when no key is greater
SmallestGreater(arr, val) ==
    IF \E i \in 1..Len(arr) : arr[i] > val
    THEN (CHOOSE i \in 1..Len(arr) :
              arr[i] > val /\ \A j \in 1..(i - 1) : arr[j] <= val) - 1
    ELSE Len(arr)

\* C33: for a key array arr of length n sorted ascending, find_ptr(arr, 0, n,
\* K) terminates, for n = 0 too, and returns the index of the smallest key
\* greater than K, or n when no key is greater, which is the number of keys
\* less than or equal to K.
C33_FindPtrUpperBound ==
    (tcall.op = "find_ptr")
        ~> (/\ tcall.op = "find_ptr_returned"
            /\ tcall.pos = SmallestGreater(tcall.arr, tcall.val)
            /\ tcall.pos = KeysUpTo(tcall.arr, tcall.val))

\* a call returned an index inside an array that holds the key looked for
C33_Witness ==
    /\ tcall.op = "find_ptr_returned"
    /\ Len(tcall.arr) = MaxKeys
    /\ \E i \in 1..Len(tcall.arr) : tcall.arr[i] = tcall.val
    /\ tcall.pos \in 1..(Len(tcall.arr) - 1)

\* a call on an array without keys returned
C33_EmptyReturns ==
    (tcall.op = "find_ptr" /\ tcall.arr = <<>>)
        ~> (tcall.op = "find_ptr_returned" /\ tcall.pos = 0)

\* ------------------------------------------------ operator_filter_rows claims
\* the indices of the rows of a table that satisfy a comparison
RowsSatisfying(table, field_name, operator, value) ==
    {i \in 0..(Len(table.rows) - 1) :
        LET data == table.rows[i + 1].data[field_name] IN
        CASE operator = "=" -> ParseInt(data) = ParseInt(value)
          [] operator = ">" -> ParseInt(data) > ParseInt(value)
          [] operator = "<" -> ParseInt(data) < ParseInt(value)
          [] operator = "!=" -> ParseInt(data) # ParseInt(value)}

FilterCalled ==
    /\ tcall'.op = "operator_filter_rows"
    /\ <<tbl, tcall>> # <<tbl', tcall'>>

C34_WitnessAfterSet ==
    /\ tcall.op = "operator_filter_rows"
    /\ tcall.given # <<>>
    /\ tcall.out[1] # RowsSatisfying(tbl, tcall.field_name, tcall.operator, tcall.value)
    /\ tcall.out[1] # {}

\* ------------------------------------------------------------ pool claims
\* C35: in every reachable pool state, also after a get, insert or write_back
\* that returned an error, the recency list holds exactly the addresses that
\* are keys of the session map, each once.
C35_FreelistIsCacheKeys ==
    /\ {freelist[i] : i \in 1..Len(freelist)} = {a \in Addrs : cache[a] # NoSQL}
    /\ \A i \in 1..Len(freelist), j \in 1..Len(freelist) :
           freelist[i] = freelist[j] => i = j

\* no address is twice in the recency list, and every address in it is a key
\* of the session map
C35_HoldsInPart ==
    /\ {freelist[i] : i \in 1..Len(freelist)} \subseteq {a \in Addrs : cache[a] # NoSQL}
    /\ \A i \in 1..Len(freelist), j \in 1..Len(freelist) :
           freelist[i] = freelist[j] => i = j

\* ------------------------------------------------------------ write_back claims
\* the records in the row file of a table, none when there is no file
RecordsOf(d, t) ==
    IF d.tables[<<"u1", "db1", t>>] = NoFile THEN 0
    ELSE Len(d.tables[<<"u1", "db1", t>>].bin)

\* the rows inserted into a table in the session
InsertedInto(sql, t) ==
    IF sql.database.tables[t] = NoTable THEN 0
    ELSE Len(sql.database.tables[t].rows)

\* C36: across all the write_back calls for a session, a call repeated after
\* one that failed part-way through hierarchic_check included, each row
\* inserted in the session is appended to the row file of its table at most
\* once: a row file, empty before, never holds more records than rows were
\* inserted into its table.
C36_AppendedAtMostOnce ==
    \A t \in RetryTableNames : RecordsOf(disk, t) <= InsertedInto(hclog.sql, t)

\* the same when the first write_back of the session returned Ok
C36_HoldsWithoutFailure ==
    (hclog.res = <<>> \/ hclog.res[1] = "ok")
    => \A t \in RetryTableNames : RecordsOf(disk, t) <= InsertedInto(hclog.sql, t)

\* ------------------------------------------------------- tombstone claims

\* the records of t1.bin whose __valid__ byte is 0
Tombstones(f) == {i \in 0..(Records(f) - 1) : RecordAt(f, i)[1] = 0}

RowCalls == {"append_rows", "delete_rows", "modify_rows", "fetch_rows"}

\* C37: a record of a table whose __valid__ byte is 0 is still a record of the
\* table with __valid__ byte 0 after every append_rows, delete_rows,
\* modify_rows and fetch_rows, whether the call succeeds or fails and
\* whatever its table, range and rows are.
C37_TombstoneStays ==
    [][(\E op \in RowCalls : Called(op))
        => /\ Tombstones(fs) \subseteq Tombstones(fs')
           /\ \A i \in Tombstones(fs) : RecordAt(fs', i) = RecordAt(fs, i)]_vars

\* a modify_rows of a live record went through next to a tombstone
C37_Witness ==
    /\ fcall.op = "modify_rows"
    /\ fcall.err = ""
    /\ Records(fs) = 2
    /\ Cardinality(Tombstones(fs)) = 1

\* an append_rows went through after a delete_rows of the only record
C37_WitnessAppend ==
    /\ fcall.op = "append_rows"
    /\ fcall.err = ""
    /\ Records(fs) = 2
    /\ Tombstones(fs) = {0}

\* ---------------------------------------------------- empty database claims

\* no database named "" is registered for a user
NoEmptyDbRegistered == \A u \in Users : <<u, "">> \notin disk.dbs

\* no table is stored under a database named ""
NoTableUnderEmptyDb ==
    \A u \in Users, t \in TableNames : disk.tables[<<u, "", t>>] = NoFile

\* C38: whatever lines the clients send, no database with an empty name is
\* registered in the dbs.json of a user and no table is created under an
\* empty database name when sessions are written back.
C38_NoEmptyDatabase == NoEmptyDbRegistered /\ NoTableUnderEmptyDb

\* C38, the part about tables alone
C38_NoTableUnderEmptyDatabase == NoTableUnderEmptyDb

\* ------------------------------------------------------------- get claims

\* names a request line can give that are not those of the session
GetUsers == Users \cup {"u2"}

\* Pool::get for a cached address, over every user and database argument
GetsOfCached(a) ==
    {pool_get(max_entry, cache, freelist, disk, u, db, a, iter) :
        u \in GetUsers, db \in DbNames, iter \in IterOrders(cache)}

\* what the claim says of the result g of a get of the cached address a
GetLeavesSession(g, a) ==
    /\ g.res = "ok"
    /\ g.cache = cache
    /\ g.disk = disk
    /\ g.freelist = <<a>> \o pop_from_freelist(freelist, a)

\* C40: get(user, db, addr) for an addr that is cached returns the session
\* of addr with its user, its database and its rows as they were, whatever
\* user and db are; nothing but the recency order changes.
C40_GetOfCachedAddr ==
    \A a \in Addrs :
        cache[a] # NoSQL => \A g \in GetsOfCached(a) : GetLeavesSession(g, a)

\* C40 where the freelist still holds the address
C40_HoldsWhenListed ==
    \A a \in Addrs :
        (cache[a] # NoSQL /\ \E i \in 1..Len(freelist) : freelist[i] = a)
            => \A g \in GetsOfCached(a) : GetLeavesSession(g, a)

\* a cached address that is not the most recent one, of a session whose
\* database is not the one a request line can name
C40_Witness ==
    \E a \in Addrs :
        /\ cache[a] # NoSQL
        /\ Len(freelist) = 2
        /\ freelist[2] = a
        /\ cache[a].database.name = ""

\* ------------------------------------------------------ session user claims

\* C39: every session in the pool has the user name that the login line of
\* the connection of its address gave; a request line with another name in
\* its first field neither makes nor uses a session of that other name.
C39_SessionOfLoggedInUser ==
    \A c \in Conns : cache[c] # NoSQL => cache[c].user = username[c]

\* ----------------------------------------------------------------- closing
\* tokio runs every spawned task that can make progress: a response that is
\* computed is written, and the `then` closure of a connection whose stream
\* ended takes the lock once it is free and runs write_back
Fairness ==
    \A c \in Conns :
        /\ WF_vars(Write(c))
        /\ WF_vars(CloseLock(c))
        /\ WF_vars(WriteBack(c))

SpecLive == Spec /\ Fairness

\* C11: when the write_back that follows the end of a connection's stream has
\* run, the pool holds no session for the address of that connection.
C11_ClosedSessionLeavesPool ==
    \A c \in Conns : pc[c] = "done" => cache[c] = NoSQL

\* the other half of C11: once the stream of a connection has ended,
\* write_back runs for its address
C11_WriteBackInvoked ==
    \A c \in Conns : (pc[c] = "close") ~> (pc[c] = "done")

====
